---- MODULE Spec2Model ----
(***************************************************************************)
(* A model of FinanceAPIService (src/Backend1/services/finance_api.py),    *)
(* the portfolio construction and projection engine of the investment      *)
(* strategist backend, of GeminiService (services/gemini_service.py), its  *)
(* narrative generator, and of the request handlers of main.py that call   *)
(* them.                                                                   *)
(*                                                                         *)
(* Numbers.  The service computes on Python floats.  The model computes on *)
(* exact fixed-point integers:                                             *)
(*   money (naira, dollars), prices, FX rates   hundredths  (50000.00 NGN  *)
(*                                              is 5000000)                *)
(*   what the providers answer                  thousandths (before the    *)
(*                                              code's round(.., 2))       *)
(*   fractional shares                          thousandths                *)
(*   returns, volatilities, multipliers         ten-thousandths (Scale)    *)
(*   variances                                  Scale * Scale              *)
(*   time                                       months (years = months/12) *)
(* round(x, n) is round-half-to-even on the exact quotient.  Strings the   *)
(* code inspects character by character (the risk tier) are sequences of   *)
(* one-character strings.                                                  *)
(*                                                                         *)
(* A call that raises is recorded as [status |-> <exception class>]; a     *)
(* call that returns as [status |-> "ok", value |-> <the value>].          *)
(***************************************************************************)
EXTENDS Integers, Sequences, FiniteSets, TLC

VARIABLES
    approved_assets,        \* self.approved_assets
    asset_characteristics,  \* self.asset_characteristics
    fx_characteristics,     \* self.fx_characteristics
    quote,                  \* what the price provider answers, per symbol
    ngn_rate,               \* what the FX provider answers
    request,                \* the call a caller has drawn and not yet made
    last,                   \* the last completed call: its inputs and result
    prev,                   \* the completed build_portfolio call before it
    threads,                \* per caller: the call it is in, and how far it got
    generation,             \* what the generation service does with a request
    tmp_dir                 \* the temporary files that exist

vars == <<approved_assets, asset_characteristics, fx_characteristics,
          quote, ngn_rate, request, last, prev, threads, generation, tmp_dir>>

service == <<approved_assets, asset_characteristics, fx_characteristics>>

-----------------------------------------------------------------------------
(* Fixed-point units *)

Scale == 10000

Hundred == 100

Thousand == 1000

(* Python's round(): the integer nearest to n / d, ties to the even one. *)
RoundPos(n, d) ==
    LET q == n \div d
        r == n % d
    IN  IF 2 * r < d THEN q
        ELSE IF 2 * r > d THEN q + 1
        ELSE IF q % 2 = 0 THEN q ELSE q + 1

(* Faulty variant: int(n / d), truncation where round() is meant *)
RoundTowardZero(n, d) ==
    IF d > 0 THEN (IF n >= 0 THEN n \div d ELSE -((-n) \div d))
             ELSE (IF n <= 0 THEN (-n) \div (-d) ELSE -(n \div (-d)))

round(n, d) == IF d > 0 THEN RoundPos(n, d) ELSE RoundPos(-n, -d)

Abs(x) == IF x < 0 THEN -x ELSE x

(* floor(a * b / c) for a >= 0, b >= 0, c > 0, without forming a * b. *)
MulDiv(a, b, c) == (a \div c) * b + ((a % c) * b) \div c

Return(v) == [status |-> "ok", value |-> v]

Raise(e) == [status |-> e]

-----------------------------------------------------------------------------
(* Strings *)

UpperLetters ==
    <<"A","B","C","D","E","F","G","H","I","J","K","L","M",
      "N","O","P","Q","R","S","T","U","V","W","X","Y","Z">>

LowerLetters ==
    <<"a","b","c","d","e","f","g","h","i","j","k","l","m",
      "n","o","p","q","r","s","t","u","v","w","x","y","z">>

LowerChar(c) ==
    IF \E i \in DOMAIN UpperLetters : UpperLetters[i] = c
    THEN LowerLetters[CHOOSE i \in DOMAIN UpperLetters : UpperLetters[i] = c]
    ELSE c

UpperChar(c) ==
    IF \E i \in DOMAIN LowerLetters : LowerLetters[i] = c
    THEN UpperLetters[CHOOSE i \in DOMAIN LowerLetters : LowerLetters[i] = c]
    ELSE c

(* str.lower() *)
lower(s) == [i \in DOMAIN s |-> LowerChar(s[i])]

low == <<"l","o","w">>

medium == <<"m","e","d","i","u","m">>

high == <<"h","i","g","h">>

-----------------------------------------------------------------------------
(* The service's tables, as __init__ builds them *)

InitApprovedAssets ==
    [s \in {"VOO", "SPY", "AAPL", "MSFT", "JNJ", "KO"} |->
        IF s \in {"VOO", "SPY"} THEN "ETF" ELSE "Stock"]

InitAssetCharacteristics ==
    [s \in {"VOO", "SPY", "AAPL", "MSFT", "JNJ", "KO"} |->
        CASE s \in {"VOO", "SPY"} ->
                [expected_return |-> 1000, volatility |-> 1800,
                 asset_class |-> "Broad Market ETF"]
          [] s \in {"AAPL", "MSFT"} ->
                [expected_return |-> 1500, volatility |-> 2500,
                 asset_class |-> "Large-Cap Tech"]
          [] s \in {"JNJ", "KO"} ->
                [expected_return |-> 700, volatility |-> 1500,
                 asset_class |-> "Defensive"]]

InitFxCharacteristics ==
    [expected_depreciation |-> -400, fx_volatility |-> 1000]

-----------------------------------------------------------------------------
(* The calculators *)

(* Faulty variant: the quotient truncated to two decimals, not rounded *)
BuyingPowerTruncated(budget_ngn, fx_rate) ==
    IF fx_rate <= 0 THEN Raise("ValueError")
    ELSE Return(RoundTowardZero(Hundred * budget_ngn, fx_rate))

calculate_usd_buying_power(budget_ngn, fx_rate) ==
    IF fx_rate <= 0 THEN Raise("ValueError")
    ELSE Return(round(Hundred * budget_ngn, fx_rate))

(* Faulty variant: the dollar amount taken as the share of the rounded      *)
(* buying power, round(round(budget_ngn / fx_rate, 2) * percent / 100, 2)  *)
AllocationFromBuyingPower(budget_ngn, allocation_percent, fx_rate) ==
    IF fx_rate = 0 THEN Raise("ZeroDivisionError")
    ELSE Return([amount_ngn |-> round(budget_ngn * allocation_percent, Hundred),
                 amount_usd |-> round(round(Hundred * budget_ngn, fx_rate)
                                        * allocation_percent, Hundred)])

(* Faulty variant: the two amounts rounded to whole units, round(x, 0) *)
AllocationWholeUnits(budget_ngn, allocation_percent, fx_rate) ==
    IF fx_rate = 0 THEN Raise("ZeroDivisionError")
    ELSE Return([amount_ngn |-> Hundred * round(budget_ngn * allocation_percent,
                                                Hundred * Hundred),
                 amount_usd |-> Hundred * round(budget_ngn * allocation_percent,
                                                Hundred * fx_rate)])

(* allocation_ngn = budget_ngn * (allocation_percent / 100) is the exact    *)
(* quotient budget_ngn * allocation_percent / 100; the division by fx_rate *)
(* is made on it before either amount is rounded.                          *)
calculate_allocation(budget_ngn, allocation_percent, fx_rate) ==
    IF fx_rate = 0 THEN Raise("ZeroDivisionError")
    ELSE Return([amount_ngn |-> round(budget_ngn * allocation_percent, Hundred),
                 amount_usd |-> round(budget_ngn * allocation_percent, fx_rate)])

(* Faulty variant: no price check; only a zero price fails, on the division *)
SharesUnchecked(allocation_usd, stock_price_usd) ==
    IF stock_price_usd = 0 THEN Raise("ZeroDivisionError")
    ELSE Return(round(Thousand * allocation_usd, stock_price_usd))

(* Faulty variant: round(fractional_shares, 2) *)
SharesTwoDecimals(allocation_usd, stock_price_usd) ==
    IF stock_price_usd <= 0 THEN Raise("ValueError")
    ELSE Return(10 * round(Hundred * allocation_usd, stock_price_usd))

calculate_fractional_shares(allocation_usd, stock_price_usd) ==
    IF stock_price_usd <= 0 THEN Raise("ValueError")
    ELSE Return(round(Thousand * allocation_usd, stock_price_usd))

(* Faulty variant: the high template holds a symbol that is not in the      *)
(* catalog                                                                  *)
TemplatesWithUnlistedAsset ==
    [k \in {low, medium, high} |->
        CASE k = low ->
                << [symbol |-> "VOO", type |-> "ETF", percent |-> 70],
                   [symbol |-> "JNJ", type |-> "Stock", percent |-> 30] >>
          [] k = medium ->
                << [symbol |-> "SPY", type |-> "ETF", percent |-> 50],
                   [symbol |-> "AAPL", type |-> "Stock", percent |-> 30],
                   [symbol |-> "KO", type |-> "Stock", percent |-> 20] >>
          [] k = high ->
                << [symbol |-> "VOO", type |-> "ETF", percent |-> 40],
                   [symbol |-> "AAPL", type |-> "Stock", percent |-> 35],
                   [symbol |-> "TSLA", type |-> "Stock", percent |-> 25] >>]

templates ==
    [k \in {low, medium, high} |->
        CASE k = low ->
                << [symbol |-> "VOO", type |-> "ETF", percent |-> 70],
                   [symbol |-> "JNJ", type |-> "Stock", percent |-> 30] >>
          [] k = medium ->
                << [symbol |-> "SPY", type |-> "ETF", percent |-> 50],
                   [symbol |-> "AAPL", type |-> "Stock", percent |-> 30],
                   [symbol |-> "KO", type |-> "Stock", percent |-> 20] >>
          [] k = high ->
                << [symbol |-> "VOO", type |-> "ETF", percent |-> 40],
                   [symbol |-> "AAPL", type |-> "Stock", percent |-> 35],
                   [symbol |-> "MSFT", type |-> "Stock", percent |-> 25] >>]

(* Faulty variant: templates.get(risk_level, ...) without .lower() *)
TemplateCaseSensitive(risk_level) ==
    IF risk_level \in DOMAIN templates THEN templates[risk_level]
    ELSE templates[medium]

(* Faulty variant: an unrecognised tier falls back to templates["low"] *)
TemplateDefaultLow(risk_level) ==
    IF lower(risk_level) \in DOMAIN templates THEN templates[lower(risk_level)]
    ELSE templates[low]

get_allocation_template(risk_level) ==
    IF lower(risk_level) \in DOMAIN templates THEN templates[lower(risk_level)]
    ELSE templates[medium]

-----------------------------------------------------------------------------
(* math.sqrt and math.exp on fixed-point numbers *)

RECURSIVE SqrtSearch(_, _, _)
(* The r with lo <= r < hi and r * r <= n < (r + 1) * (r + 1). *)
SqrtSearch(n, lo, hi) ==
    IF hi - lo <= 1 THEN lo
    ELSE LET mid == (lo + hi) \div 2
         IN  IF mid * mid <= n THEN SqrtSearch(n, mid, hi)
                               ELSE SqrtSearch(n, lo, mid)

(* math.sqrt(n) for n >= 0, to the nearest unit: n is at the square of the *)
(* scale of the result.                                                    *)
sqrt(n) ==
    LET r == SqrtSearch(n, 0, IF n + 1 < 46341 THEN n + 1 ELSE 46341)
    IN  IF n - r * r > r THEN r + 1 ELSE r

RECURSIVE ExpTerms(_, _, _)
(* term + term * x / k + term * x * x / (k * (k + 1)) + ..., x >= 0 at Scale *)
ExpTerms(term, x, k) ==
    IF term = 0 THEN 0
    ELSE term + ExpTerms(MulDiv(term, x, Scale) \div k, x, k + 1)

(* math.exp(x), x and the result at Scale: the power series for x >= 0 and *)
(* 1 / exp(-x) for x < 0.  It is nondecreasing in x and exp(0) is 1.       *)
exp(x) ==
    IF x >= 0 THEN ExpTerms(Scale, x, 1)
    ELSE (Scale * Scale) \div ExpTerms(Scale, -x, 1)

(* round(a * b / c) for b >= 0, c > 0, without forming a * b. *)
MulRound(a, b, c) ==
    LET m == Abs(a)
        whole == (m \div c) * b + ((m % c) * b) \div c
        rest == ((m % c) * b) % c
        r == IF 2 * rest < c THEN whole
             ELSE IF 2 * rest > c THEN whole + 1
             ELSE IF whole % 2 = 0 THEN whole ELSE whole + 1
    IN  IF a >= 0 THEN r ELSE -r

-----------------------------------------------------------------------------
(* Portfolio statistics *)

DefaultCharacteristics == [expected_return |-> 1000, volatility |-> 1800]

(* self.asset_characteristics.get(symbol, {...}) *)
chars(symbol) ==
    IF symbol \in DOMAIN asset_characteristics
    THEN asset_characteristics[symbol]
    ELSE DefaultCharacteristics

(* One pass of the loop body: weight = allocation_percent / 100.0 *)
(* Faulty variant: weight * volatility**2 in place of (weight * volatility)**2 *)
StatsStepLinear(acc, asset) ==
    [weighted_return |-> acc.weighted_return
        + round(asset.allocation_percent * chars(asset.symbol).expected_return, Hundred),
     weighted_variance |-> acc.weighted_variance
        + round(asset.allocation_percent * chars(asset.symbol).volatility
                  * chars(asset.symbol).volatility, Hundred * Scale),
     total_weight |-> acc.total_weight + asset.allocation_percent]

StatsStep(acc, asset) ==
    LET weighted_vol == round(asset.allocation_percent * chars(asset.symbol).volatility,
                              Hundred)
    IN  [weighted_return |-> acc.weighted_return
            + round(asset.allocation_percent * chars(asset.symbol).expected_return, Hundred),
         weighted_variance |-> acc.weighted_variance + weighted_vol * weighted_vol,
         total_weight |-> acc.total_weight + asset.allocation_percent]

RECURSIVE StatsLoop(_, _, _)
StatsLoop(portfolio, i, acc) ==
    IF i > Len(portfolio) THEN acc
    ELSE StatsLoop(portfolio, i + 1, StatsStep(acc, portfolio[i]))

(* The local variables of _calculate_portfolio_statistics after its loop *)
StatsFrame(portfolio) ==
    StatsLoop(portfolio, 1,
              [weighted_return |-> 0, weighted_variance |-> 0, total_weight |-> 0])

(* Faulty variant: the sums divided by total_weight *)
StatsNormalised(portfolio) ==
    LET acc == StatsFrame(portfolio)
    IN  IF acc.total_weight = 0 THEN Raise("ZeroDivisionError")
        ELSE IF acc.weighted_variance < 0 THEN Raise("ValueError")
        ELSE Return([expected_return |-> round(Hundred * acc.weighted_return, acc.total_weight),
                     volatility |-> round(Hundred * sqrt(acc.weighted_variance),
                                          acc.total_weight)])

(* math.sqrt raises ValueError on a negative argument *)
_calculate_portfolio_statistics(portfolio) ==
    LET acc == StatsFrame(portfolio)
    IN  IF acc.weighted_variance < 0 THEN Raise("ValueError")
        ELSE Return([expected_return |-> acc.weighted_return,
                     volatility |-> sqrt(acc.weighted_variance)])

-----------------------------------------------------------------------------
(* Risk notes *)

ShortTermNote ==
    "Short-term investments are highly volatile - expect significant fluctuations"

MediumTermNote ==
    "Medium-term horizon allows some volatility smoothing but remains uncertain"

LongTermNote == "Long-term horizon reduces impact of short-term volatility"

HighVolNote == "High portfolio volatility - value may swing ±30% or more"

ModerateVolNote == "Moderate volatility - expect fluctuations of ±20-30%"

LowerVolNote == "Lower volatility portfolio - relatively stable growth expected"

FxRiskNote ==
    "FX risk: Naira depreciation increases USD asset value but also increases local currency volatility"

MarketAccessNote ==
    "Market access: Liquidity depends on broker availability and FX regulations"

(* Faulty variant: the horizon bands closed above, years <= 1 and years <= 2 *)
RiskFactorsHorizonInclusive(months, volatility) ==
    << IF months <= 12 THEN ShortTermNote
       ELSE IF months <= 24 THEN MediumTermNote
       ELSE LongTermNote,
       IF volatility > 2000 THEN HighVolNote
       ELSE IF volatility > 1500 THEN ModerateVolNote
       ELSE LowerVolNote,
       FxRiskNote,
       MarketAccessNote >>

(* years is given in months; volatility at Scale *)
_get_risk_factors(months, volatility) ==
    << IF months < 12 THEN ShortTermNote
       ELSE IF months < 24 THEN MediumTermNote
       ELSE LongTermNote,
       IF volatility > 2000 THEN HighVolNote
       ELSE IF volatility > 1500 THEN ModerateVolNote
       ELSE LowerVolNote,
       FxRiskNote,
       MarketAccessNote >>

-----------------------------------------------------------------------------
(* The projection *)

Label_6_months == <<"6","_","m","o","n","t","h","s">>

Label_1_year == <<"1","_","y","e","a","r">>

Label_10_years == <<"1","0","_","y","e","a","r","s">>

(* The labels' years, in months *)
horizon_map ==
    LET months(n) == <<n, "_", "m", "o", "n", "t", "h", "s">>
        yrs(n) == <<n, "_", "y", "e", "a", "r", "s">>
    IN  [k \in {months("3"), Label_6_months, Label_1_year, yrs("2"), yrs("3"), yrs("4"),
                yrs("5"), yrs("6"), yrs("7"), yrs("8"), yrs("9"), Label_10_years} |->
            CASE k = months("3") -> 3
              [] k = Label_6_months -> 6
              [] k = Label_1_year -> 12
              [] k = yrs("2") -> 24
              [] k = yrs("3") -> 36
              [] k = yrs("4") -> 48
              [] k = yrs("5") -> 60
              [] k = yrs("6") -> 72
              [] k = yrs("7") -> 84
              [] k = yrs("8") -> 96
              [] k = yrs("9") -> 108
              [] k = Label_10_years -> 120]

OneYearDisplay == <<"1"," ","y","e","a","r">>

(* str.replace("_", " ") *)
replace_underscores(s) == [i \in DOMAIN s |-> IF s[i] = "_" THEN " " ELSE s[i]]

(* A time_horizon is [int |-> months] or [str |-> label]. *)
isinstance_int(time_horizon) == "int" \in DOMAIN time_horizon

(* Faulty variant: an unrecognised label counts as no time at all *)
YearsOfKnownLabels(time_horizon) ==
    IF isinstance_int(time_horizon) THEN time_horizon.int
    ELSE IF time_horizon.str \in DOMAIN horizon_map THEN horizon_map[time_horizon.str]
    ELSE 0

years(time_horizon) ==
    IF isinstance_int(time_horizon) THEN time_horizon.int
    ELSE IF time_horizon.str \in DOMAIN horizon_map THEN horizon_map[time_horizon.str]
    ELSE 12

horizon_display(time_horizon) ==
    IF isinstance_int(time_horizon)
    THEN (IF time_horizon.int # 12 THEN <<time_horizon.int, " months">>
                                   ELSE OneYearDisplay)
    ELSE replace_underscores(time_horizon.str)

(* An Optional[List]: None, or a list *)
None == [some |-> FALSE, list |-> <<>>]

Some(list) == [some |-> TRUE, list |-> list]

fallback_stats ==
    [k \in {low, medium, high} |->
        CASE k = low -> [return |-> 800, volatility |-> 1500]
          [] k = medium -> [return |-> 1000, volatility |-> 1800]
          [] k = high -> [return |-> 1300, volatility |-> 2200]]

(* Faulty variant: without a portfolio, the statistics of the tier's        *)
(* template are computed from the catalog                                  *)
PortfolioStatsFromTemplate(risk_level, portfolio) ==
    IF portfolio.some /\ Len(portfolio.list) > 0
    THEN _calculate_portfolio_statistics(portfolio.list)
    ELSE _calculate_portfolio_statistics(
             [i \in DOMAIN get_allocation_template(risk_level) |->
                 [symbol |-> get_allocation_template(risk_level)[i].symbol,
                  allocation_percent |-> get_allocation_template(risk_level)[i].percent]])

(* portfolio_return and portfolio_volatility: the aggregate of a non-empty  *)
(* portfolio, else the tier's fixed pair                                   *)
portfolio_stats(risk_level, portfolio) ==
    IF portfolio.some /\ Len(portfolio.list) > 0
    THEN _calculate_portfolio_statistics(portfolio.list)
    ELSE LET stats == IF lower(risk_level) \in DOMAIN fallback_stats
                      THEN fallback_stats[lower(risk_level)]
                      ELSE fallback_stats[medium]
         IN  Return([expected_return |-> stats.return, volatility |-> stats.volatility])

(* correlation = 0.3, in tenths *)
correlation == 3

(* 0.674, in thousandths *)
ZScore == 674

(* Faulty variant: the pessimistic exponent with + 0.674 *)
ZPessimisticPositive == ZScore

z_pessimistic == -ZScore

z_optimistic == ZScore

(* math.exp(drift + z * diffusion) *)
multiplier(drift, z, diffusion) == exp(drift + round(z * diffusion, Thousand))

(* Faulty variant: the variances added without the correlation term *)
TotalVarianceUncorrelated(portfolio_volatility, fx_vol) ==
    portfolio_volatility * portfolio_volatility + fx_vol * fx_vol

(* portfolio_volatility**2 + fx_vol**2 + 2 * correlation * portfolio_volatility * fx_vol *)
total_variance(portfolio_volatility, fx_vol) ==
    portfolio_volatility * portfolio_volatility + fx_vol * fx_vol
        + round(2 * correlation * portfolio_volatility * fx_vol, 10)

(* years, at Scale * Scale, for math.sqrt(years) *)
YearsSquareScale(months) == months * ((Scale * Scale) \div 12)

(* Faulty variant: the drift not multiplied by years *)
DriftIgnoringYears(total_return, total_volatility, months) ==
    total_return - round(total_volatility * total_volatility, 2 * Scale)

(* (total_return - 0.5 * total_volatility**2) * years *)
drift_of(total_return, total_volatility, months) ==
    round((total_return - round(total_volatility * total_volatility, 2 * Scale)) * months, 12)

(* Faulty variant: total_volatility * years, without the square root *)
DiffusionLinear(total_volatility, months) == round(total_volatility * months, 12)

(* total_volatility * math.sqrt(years) *)
diffusion_of(total_volatility, months) ==
    round(total_volatility * sqrt(YearsSquareScale(months)), Scale)

(* The local variables of _generate_projection when it reaches its return, *)
(* or the exception it raises on the way.                                  *)
ProjectionFrame(budget_ngn, risk_level, time_horizon, portfolio) ==
    LET months == years(time_horizon)
        stats == portfolio_stats(risk_level, portfolio)
        fx_drift == fx_characteristics.expected_depreciation
        fx_vol == fx_characteristics.fx_volatility
    IN  IF stats.status # "ok" THEN Raise(stats.status)
        ELSE
        LET portfolio_return == stats.value.expected_return
            portfolio_volatility == stats.value.volatility
            total_return == portfolio_return - fx_drift
            variance == total_variance(portfolio_volatility, fx_vol)
        IN  IF variance < 0 \/ months < 0 THEN Raise("ValueError")
            ELSE
            LET total_volatility == sqrt(variance)
                drift == drift_of(total_return, total_volatility, months)
                diffusion == diffusion_of(total_volatility, months)
                pessimistic_multiplier == multiplier(drift, z_pessimistic, diffusion)
                expected_multiplier == exp(drift)
                optimistic_multiplier == multiplier(drift, z_optimistic, diffusion)
            IN  [status |-> "ok",
                 years |-> months,
                 horizon_display |-> horizon_display(time_horizon),
                 portfolio_return |-> portfolio_return,
                 portfolio_volatility |-> portfolio_volatility,
                 fx_drift |-> fx_drift,
                 fx_vol |-> fx_vol,
                 total_return |-> total_return,
                 total_variance |-> variance,
                 total_volatility |-> total_volatility,
                 drift |-> drift,
                 diffusion |-> diffusion,
                 pessimistic_multiplier |-> pessimistic_multiplier,
                 expected_multiplier |-> expected_multiplier,
                 optimistic_multiplier |-> optimistic_multiplier,
                 pessimistic_value |-> MulRound(budget_ngn, pessimistic_multiplier, Scale),
                 expected_value |-> MulRound(budget_ngn, expected_multiplier, Scale),
                 optimistic_value |-> MulRound(budget_ngn, optimistic_multiplier, Scale),
                 pessimistic_return |-> pessimistic_multiplier - Scale,
                 expected_return |-> expected_multiplier - Scale,
                 optimistic_return |-> optimistic_multiplier - Scale]

(* f"{x:,.0f}": a money amount to whole naira *)
FormatNaira(x) == round(x, Hundred)

(* f"{x * 100:.1f}": a rate at Scale as a percentage with one decimal, in tenths *)
FormatPercent(x) == round(x, 10)

Scenario(value, return_percent, description) ==
    [value |-> FormatNaira(value),
     return_percent |-> FormatPercent(return_percent),
     description |-> description]

(* The dictionary _generate_projection returns, from its local variables *)
ProjectionDict(budget_ngn, f) ==
    [initial_investment |-> FormatNaira(budget_ngn),
     time_horizon |-> f.horizon_display,
     scenarios |->
        [pessimistic |-> Scenario(f.pessimistic_value, f.pessimistic_return,
            "Pessimistic scenario (25% chance of worse outcome)"),
         expected |-> Scenario(f.expected_value, f.expected_return,
            "Most likely outcome based on historical patterns"),
         optimistic |-> Scenario(f.optimistic_value, f.optimistic_return,
            "Optimistic scenario (25% chance of better outcome)")],
     assumptions |->
        [stock_return_usd |-> FormatPercent(f.portfolio_return),
         fx_impact |-> FormatPercent(-f.fx_drift),
         total_expected_return |-> FormatPercent(f.total_return),
         portfolio_volatility |-> FormatPercent(f.total_volatility)],
     methodology |-> "Lognormal distribution with geometric compounding",
     risk_factors |-> _get_risk_factors(f.years, f.total_volatility),
     disclaimer |-> "These projections are based on historical market behavior and assume normal market conditions."]

_generate_projection(budget_ngn, risk_level, time_horizon, portfolio) ==
    LET f == ProjectionFrame(budget_ngn, risk_level, time_horizon, portfolio)
    IN  IF f.status # "ok" THEN Raise(f.status)
        ELSE Return(ProjectionDict(budget_ngn, f))

calculate_projections(budget_ngn, risk_level, time_horizon, portfolio) ==
    _generate_projection(budget_ngn, risk_level, time_horizon, portfolio)

-----------------------------------------------------------------------------
(* The market-data collaborators.  A provider answers Error (the request   *)
(* raises or times out), Missing (the field is absent from the JSON) or a  *)
(* number in thousandths.                                                  *)

Error == [kind |-> "error"]

Missing == [kind |-> "missing"]

Number(n) == [kind |-> "number", n |-> n]

fallback_prices ==
    [s \in {"VOO", "SPY", "AAPL", "MSFT", "JNJ", "KO"} |->
        CASE s = "VOO" -> 52000
          [] s = "SPY" -> 58000
          [] s = "AAPL" -> 23000
          [] s = "MSFT" -> 42500
          [] s = "JNJ" -> 15500
          [] s = "KO" -> 6200]

_get_fallback_price(symbol) ==
    IF symbol \in DOMAIN fallback_prices THEN fallback_prices[symbol] ELSE 10000

_get_fallback_fx_rate == 154000

(* Faulty variant: `if current_price is not None`, any number is returned *)
PriceWithoutSignCheck(symbol) ==
    IF quote[symbol].kind = "number" THEN round(quote[symbol].n, 10)
    ELSE _get_fallback_price(symbol)

(* `if x and x > 0`: a number that is neither missing, zero nor negative *)
TruthyPositive(x) == x.kind = "number" /\ x.n > 0

get_stock_price(symbol) ==
    IF TruthyPositive(quote[symbol]) THEN round(quote[symbol].n, 10)
    ELSE _get_fallback_price(symbol)

get_fx_rate ==
    IF TruthyPositive(ngn_rate) THEN round(ngn_rate.n, 10)
    ELSE _get_fallback_fx_rate

(* POST /api/market/stock-price (main.py).  The handler answers 404 when    *)
(* the service returns None and 500 when it raises; get_stock_price has no *)
(* path that does either: each of its paths returns a float.               *)
api_market_stock_price(symbol) ==
    LET price == [is_none |-> FALSE, value |-> get_stock_price(symbol)]
    IN  IF price.is_none
        THEN [status_code |-> 404, detail |-> <<"Could not fetch price for ", symbol>>]
        ELSE [status_code |-> 200,
              body |-> [success |-> TRUE, symbol |-> symbol,
                        price_usd |-> price.value, currency |-> "USD"]]

(* GET /api/utils/risk-levels (main.py): the "volatility" text of each     *)
(* tier, "15-18% annually" and so on, as its two ends in tenths of a       *)
(* percent, the unit of the percentages the projection reports             *)
get_risk_levels ==
    [k \in {low, medium, high} |->
        CASE k = low -> [volatility |-> <<150, 180>>]
          [] k = medium -> [volatility |-> <<180, 220>>]
          [] k = high -> [volatility |-> <<220, 250>>]]

(* GET /api/utils/time-horizons (main.py): the "value" of each option *)
get_time_horizons ==
    LET yrs(n) == <<n, "_", "y", "e", "a", "r", "s">>
    IN  <<Label_6_months, Label_1_year, yrs("2"), yrs("3"), yrs("5"), Label_10_years>>

-----------------------------------------------------------------------------
(* build_portfolio *)

PortfolioDisclaimer ==
    "This is an educational simulation and not financial advice. Returns are not guaranteed."

(* One pass of the loop over the template: the entry it appends, or the    *)
(* exception that ends the call.  get_stock_price never returns None, so   *)
(* no asset is skipped.                                                    *)
(* Faulty variant: an asset whose price is not positive is kept in the list *)
(* with no shares instead of ending the call                                *)
LoopBodyTolerant(asset, budget_ngn, fx_rate) ==
    LET price_usd == get_stock_price(asset.symbol)
        allocation == calculate_allocation(budget_ngn, asset.percent, fx_rate)
    IN  IF allocation.status # "ok" THEN Raise(allocation.status)
        ELSE
        LET fractional_shares ==
                IF price_usd <= 0 THEN Return(0)
                ELSE calculate_fractional_shares(allocation.value.amount_usd, price_usd)
        IN  Return([symbol |-> asset.symbol,
                    type |-> asset.type,
                    allocation_percent |-> asset.percent,
                    price_usd |-> price_usd,
                    amount_ngn |-> allocation.value.amount_ngn,
                    fractional_shares |-> fractional_shares.value])

LoopBody(asset, budget_ngn, fx_rate) ==
    LET price_usd == get_stock_price(asset.symbol)
        allocation == calculate_allocation(budget_ngn, asset.percent, fx_rate)
    IN  IF allocation.status # "ok" THEN Raise(allocation.status)
        ELSE
        LET fractional_shares ==
                calculate_fractional_shares(allocation.value.amount_usd, price_usd)
        IN  IF fractional_shares.status # "ok" THEN Raise(fractional_shares.status)
            ELSE Return([symbol |-> asset.symbol,
                         type |-> asset.type,
                         allocation_percent |-> asset.percent,
                         price_usd |-> price_usd,
                         amount_ngn |-> allocation.value.amount_ngn,
                         fractional_shares |-> fractional_shares.value])

RECURSIVE BuildLoop(_, _, _, _, _)
(* The loop over the template: the portfolio list, or the exception that   *)
(* ends the call.                                                          *)
BuildLoop(allocation_template, i, budget_ngn, fx_rate, portfolio) ==
    IF i > Len(allocation_template) THEN Return(portfolio)
    ELSE
    LET entry == LoopBody(allocation_template[i], budget_ngn, fx_rate)
    IN  IF entry.status # "ok" THEN Raise(entry.status)
        ELSE BuildLoop(allocation_template, i + 1, budget_ngn, fx_rate,
                       Append(portfolio, entry.value))

(* Steps 4 and 5: the projection of the finished list, and the response *)
BuildResponse(budget_ngn, risk_level, time_horizon, fx_rate, usd_buying_power, portfolio) ==
    LET projection == _generate_projection(budget_ngn, risk_level,
                                           time_horizon, Some(portfolio))
    IN  IF projection.status # "ok" THEN Raise(projection.status)
        ELSE Return([budget_ngn |-> budget_ngn,
                     fx_rate |-> fx_rate,
                     usd_buying_power |-> usd_buying_power,
                     risk_level |-> risk_level,
                     time_horizon |-> time_horizon,
                     portfolio |-> portfolio,
                     projection |-> projection.value,
                     disclaimer |-> PortfolioDisclaimer])

build_portfolio(budget_ngn, risk_level, time_horizon) ==
    LET fx_rate == get_fx_rate
        usd_buying_power == calculate_usd_buying_power(budget_ngn, fx_rate)
    IN  IF usd_buying_power.status # "ok" THEN Raise(usd_buying_power.status)
        ELSE
        LET portfolio == BuildLoop(get_allocation_template(risk_level), 1,
                                   budget_ngn, fx_rate, <<>>)
        IN  IF portfolio.status # "ok" THEN Raise(portfolio.status)
            ELSE BuildResponse(budget_ngn, risk_level, time_horizon, fx_rate,
                               usd_buying_power.value, portfolio.value)

-----------------------------------------------------------------------------
(* GeminiService (gemini_service.py).  The generation service either raises *)
(* or answers with a text; a text is known by what the methods do with it:  *)
(* whether blanks surround it (str.strip), whether a ```json fence wraps it *)
(* (str.replace), and whether it reads as a JSON object, as another JSON    *)
(* value or as prose (json.loads).  An exception is known by its class;     *)
(* "NetworkError" stands for those whose text holds one of network_keywords *)
(* and "ServerError" for the service's other failures.                      *)

(* genai.upload_file(path=...) *)
upload_file(path) ==
    IF generation.upload # "ok" THEN Raise(generation.upload)
    ELSE Return([path |-> path])

(* self.model.generate_content(...) *)
generate_content ==
    IF generation.content.kind # "text" THEN Raise(generation.content.kind)
    ELSE Return(generation.content)

(* datetime.now().isoformat(): the reading of the clock *)
_get_timestamp == "datetime.now().isoformat()"

(* The except branch of the four methods: the fixed text for the service,   *)
(* naming network issues when the exception's text holds a network keyword  *)
Unavailable(what, e) == [kind |-> "unavailable", service |-> what,
                          network_issues |-> (e = "NetworkError")]

(* The body shared by analyze_sec_pdf and analyze_earnings_audio once the   *)
(* file is uploaded: generate, parse, add the metadata; any exception ends  *)
(* in the error dictionary                                                  *)
Analysis(uploaded_file, stock_symbol, document_type) ==
    LET response == generate_content
        failed(e) == [error |-> TRUE, message |-> Unavailable("analysis", e),
                      symbol |-> stock_symbol]
    IN  IF uploaded_file.status # "ok" THEN failed(uploaded_file.status)
        ELSE IF response.status # "ok" THEN failed(response.status)
        ELSE IF response.value.body = "prose" THEN failed("JSONDecodeError")
        ELSE IF response.value.body # "object" THEN failed("TypeError")
        ELSE [parsed |-> [response.value EXCEPT !.padding = FALSE, !.fence = FALSE],
              symbol |-> stock_symbol,
              document_type |-> document_type,
              analysis_timestamp |-> _get_timestamp]

analyze_sec_pdf(pdf_file_path, stock_symbol) ==
    Analysis(upload_file(pdf_file_path), stock_symbol, "SEC Filing")

(* upload_file(path=pdf_file_path): the function has no name pdf_file_path  *)
(* (its parameter is audio_file_path) and the module has none either, so    *)
(* the argument raises NameError before upload_file is called               *)
analyze_earnings_audio(audio_file_path, stock_symbol) ==
    Analysis(Raise("NameError"), stock_symbol, "Earnings Call")

explain_portfolio_recommendation(portfolio_data, budget_ngn, risk_level) ==
    LET response == generate_content
    IN  IF response.status # "ok" THEN Unavailable("explanation", response.status)
        ELSE [response.value EXCEPT !.padding = FALSE]

(* time_horizon.replace('_', ' ') is part of the prompt, inside the try *)
explain_projections(projections_data, budget_ngn, time_horizon) ==
    LET response == generate_content
    IN  IF isinstance_int(time_horizon) THEN Unavailable("projection", "AttributeError")
        ELSE IF response.status # "ok" THEN Unavailable("projection", response.status)
        ELSE [response.value EXCEPT !.padding = FALSE]

-----------------------------------------------------------------------------
(* The request handlers of main.py that call both services *)

(* Faulty variant: the handler answers 500 when the explanation could not   *)
(* be generated                                                             *)
ApiPortfolioBuildStrict(budget_ngn, risk_level, time_horizon) ==
    LET response(portfolio_data, ai_explanation) ==
            IF portfolio_data.status # "ok"
            THEN [status_code |-> 500, detail |-> portfolio_data.status]
            ELSE IF ai_explanation.kind = "unavailable"
            THEN [status_code |-> 500, detail |-> "unavailable"]
            ELSE [status_code |-> 200,
                  body |-> [success |-> TRUE,
                            portfolio |-> portfolio_data.value,
                            ai_explanation |-> ai_explanation,
                            metadata |-> [budget_ngn |-> budget_ngn,
                                          risk_level |-> risk_level,
                                          time_horizon |-> time_horizon]]]
        explained(portfolio_data) ==
            response(portfolio_data,
                     explain_portfolio_recommendation(portfolio_data.value,
                                                      budget_ngn, risk_level))
    IN  explained(build_portfolio(budget_ngn, risk_level, time_horizon))

(* POST /api/portfolio/build: the except branch when build_portfolio        *)
(* raised, else the portfolio with its explanation                          *)
api_portfolio_build(budget_ngn, risk_level, time_horizon) ==
    LET response(portfolio_data) ==
            IF portfolio_data.status # "ok"
            THEN [status_code |-> 500, detail |-> portfolio_data.status]
            ELSE [status_code |-> 200,
                  body |-> [success |-> TRUE,
                            portfolio |-> portfolio_data.value,
                            ai_explanation |->
                                explain_portfolio_recommendation(
                                    portfolio_data.value, budget_ngn, risk_level),
                            metadata |-> [budget_ngn |-> budget_ngn,
                                          risk_level |-> risk_level,
                                          time_horizon |-> time_horizon]]]
    IN  response(build_portfolio(budget_ngn, risk_level, time_horizon))

(* POST /api/portfolio/projections *)
api_portfolio_projections(budget_ngn, risk_level, time_horizon, portfolio) ==
    LET response(projections_data) ==
            IF projections_data.status # "ok"
            THEN [status_code |-> 500, detail |-> projections_data.status]
            ELSE [status_code |-> 200,
                  body |-> [success |-> TRUE,
                            projections |-> projections_data.value,
                            ai_explanation |->
                                explain_projections(projections_data.value,
                                                    budget_ngn, time_horizon)]]
    IN  response(calculate_projections(budget_ngn, risk_level,
                                       time_horizon, portfolio))

(* str.endswith *)
endswith(s, ext) ==
    Len(s) >= Len(ext) /\ SubSeq(s, Len(s) - Len(ext) + 1, Len(s)) = ext

(* Path(name).suffix: from the last dot of the name on, if the name has a   *)
(* dot after its first character                                            *)
suffix(name) ==
    LET dots == {i \in 2..Len(name) : name[i] = "."}
    IN  IF dots = {} THEN <<>>
        ELSE SubSeq(name, CHOOSE i \in dots : \A j \in dots : j <= i, Len(name))

(* tempfile.NamedTemporaryFile(delete=False, suffix=...): a file under a    *)
(* name that no existing temporary file has                                 *)
NamedTemporaryFile(file_suffix) ==
    [n |-> CHOOSE n \in 0..Cardinality(tmp_dir) : \A f \in tmp_dir : f.n # n,
     ext |-> file_suffix]

(* analyze_sec_filing and analyze_earnings_call, which differ in the        *)
(* extensions they accept, the suffix of the temporary file and the method  *)
(* they call.  The response, and the temporary files that exist when it is  *)
(* produced: NamedTemporaryFile(delete=False) creates the file on entering  *)
(* the with block; tmp_path is assigned as the block's last statement.      *)
UploadHandler(valid_extensions, file_suffix, analysis) ==
    LET filename == request.filename
        created == NamedTemporaryFile(file_suffix)
    IN  IF \/ ~filename.some \/ filename.list = <<>>
           \/ \A i \in DOMAIN valid_extensions :
                 ~endswith(lower(filename.list), valid_extensions[i])
        THEN [response |-> [status_code |-> 400, detail |-> "unsupported"],
              tmp_dir |-> tmp_dir]
        ELSE IF request.read # "ok" \/ request.write # "ok"
        THEN \* the except branch: tmp_path is still None, nothing is unlinked
             [response |-> [status_code |-> 500, detail |-> "failed"],
              tmp_dir |-> tmp_dir \cup {created}]
        ELSE \* os.unlink(tmp_path) follows the analysis, whatever it returned
             IF "error" \in DOMAIN analysis
             THEN [response |-> [status_code |-> 500, detail |-> analysis.message],
                   tmp_dir |-> (tmp_dir \cup {created}) \ {created}]
             ELSE [response |-> [status_code |-> 200,
                                 body |-> [success |-> TRUE, analysis |-> analysis]],
                   tmp_dir |-> (tmp_dir \cup {created}) \ {created}]

-----------------------------------------------------------------------------
(* Inputs *)

MaxAmount == 9

MaxRate == 8

MaxPositions == 2

Amounts == (-2 .. MaxAmount) \cup {1623, 5000000}

ShareAmounts == (-2 .. MaxAmount) \cup {649, 974, 1623}

Rates == (-2 .. MaxRate) \cup {6200, 154000}

AllocationBudgets == {-100, 0, 33, 5000000}

AllocationPercents == {-10, 0, 20, 30, 50, 100}

AllocationRates == {-154000, -1, 0, 1, 3, 154000}

(* Every way of writing a word in upper and lower case letters *)
CaseVariants(word) ==
    { [i \in DOMAIN word |-> IF i \in S THEN UpperChar(word[i]) ELSE word[i]] :
        S \in SUBSET DOMAIN word }

UnknownTiers ==
    { <<>>, <<"a","g","g","r","e","s","s","i","v","e">>, <<"l","o">>, <<"m","e","d","i","u","n">>, <<"l","0","w">>, <<" ","l","o","w">>, <<"H","I","G","H","E","R">> }

Tiers == CaseVariants(low) \cup CaseVariants(medium) \cup CaseVariants(high)
            \cup UnknownTiers

Symbols == {"VOO", "SPY", "AAPL", "MSFT", "JNJ", "KO"}

Positions ==
    [symbol : {"SPY", "AAPL", "KO", "TSLA"},
     allocation_percent : {-20, 0, 30, 50, 120}]

RECURSIVE SeqsUpTo(_, _)
(* The sequences over S of length 1 .. n *)
SeqsUpTo(S, n) ==
    IF n = 0 THEN {}
    ELSE LET shorter == SeqsUpTo(S, n - 1)
         IN  {<<x>> : x \in S} \cup shorter
                \cup {Append(q, x) : q \in shorter, x \in S}

Portfolios == SeqsUpTo(Positions, MaxPositions)

(* The positions build_portfolio makes of a template, as the statistics read them *)
TemplatePortfolio(k) ==
    [i \in DOMAIN templates[k] |->
        [symbol |-> templates[k][i].symbol,
         allocation_percent |-> templates[k][i].percent]]

ProjectionPortfolios ==
    {None, Some(<<>>)}
        \cup {Some(TemplatePortfolio(k)) : k \in DOMAIN templates}
        \cup {Some(<<x>>) : x \in Positions}

ProjectionBudgets == {-100, 0, 1, 150, 5000000, 5000050}

ProjectionTiers == {low, medium, high, <<"H","i","g","h">>, <<"a","g","g","r","e","s","s","i","v","e">>}

IntHorizons == {-6, 0, 1, 12, 18, 24, 120}

StrHorizons ==
    {Label_6_months, Label_1_year, Label_10_years, <<"1","8","_","m","o","n","t","h","s">>, <<>>}

Horizons == {[int |-> m] : m \in IntHorizons} \cup {[str |-> l] : l \in StrHorizons}

RiskMonths == {0, 6, 11, 12, 23, 24, 120}

RiskVolatilities == {0, 1499, 1500, 1501, 1786, 2000, 2001, 3000}

AllFail == [s \in Symbols \cup {"TSLA"} |-> Error]

LiveQuotes ==
    [s \in Symbols \cup {"TSLA"} |->
        CASE s = "VOO" -> Number(531254)
          [] s = "SPY" -> Number(579995)
          [] s = "AAPL" -> Number(228125)
          [] s = "MSFT" -> Number(431000)
          [] s = "JNJ" -> Number(150335)
          [] s = "KO" -> Number(61875)
          [] s = "TSLA" -> Number(250000)]

(* An answer is a float: the model draws thousandths whose round(.., 2) is  *)
(* the same in binary floating point as on the exact decimal (no 0.005 or  *)
(* 0.015, which Python rounds to 0.01 both).                               *)
QuoteAnswers == {Error, Missing, Number(-1000), Number(0), Number(4), Number(6),
                 Number(14), Number(61875), Number(579995)}

RateAnswers == {Error, Missing, Number(-1), Number(0), Number(4), Number(6),
                Number(1600004), Number(1540000)}

(* What the generation service may do with an upload and with a request   *)
(* for content                                                             *)
Generations ==
    [upload : {"ok", "NetworkError", "ServerError"},
     content : {[kind |-> "NetworkError"], [kind |-> "ServerError"],
                [kind |-> "text", fence |-> FALSE, padding |-> FALSE, body |-> "object"],
                [kind |-> "text", fence |-> TRUE, padding |-> TRUE, body |-> "object"],
                [kind |-> "text", fence |-> FALSE, padding |-> TRUE, body |-> "list"],
                [kind |-> "text", fence |-> FALSE, padding |-> TRUE, body |-> "prose"]}]

(* Price tables in which each request fails or answers on its own: one      *)
(* answer for the two ETFs, one for the two technology stocks, one for the  *)
(* rest                                                                     *)
GroupedQuotes ==
    { [s \in Symbols \cup {"TSLA"} |->
          IF s \in {"VOO", "SPY"} THEN a
          ELSE IF s \in {"AAPL", "MSFT"} THEN b
          ELSE c] : a \in QuoteAnswers, b \in QuoteAnswers, c \in QuoteAnswers }

-----------------------------------------------------------------------------
(* Calls and their records *)

NoRequest == [op |-> "none"]

NoCall == [call |-> NoRequest]

Done(call, result, locals) == [call |-> call, result |-> result, locals |-> locals]

NoLocals == [none |-> TRUE]

(* The callers of the service: request handlers that may run side by side *)
Threads == {"a", "b"}

NoThreads == [t \in Threads |-> [pc |-> "idle"]]

InitService ==
    /\ approved_assets = InitApprovedAssets
    /\ asset_characteristics = InitAssetCharacteristics
    /\ fx_characteristics = InitFxCharacteristics

-----------------------------------------------------------------------------
(* The pure operations, each applied to inputs drawn at the start *)

CalcRequests ==
    [op : {"calculate_usd_buying_power"}, budget_ngn : Amounts, fx_rate : Rates]
    \cup [op : {"calculate_allocation"}, budget_ngn : AllocationBudgets,
          allocation_percent : AllocationPercents, fx_rate : AllocationRates]
    \cup [op : {"calculate_fractional_shares"}, allocation_usd : ShareAmounts,
          stock_price_usd : Rates]
    \cup [op : {"get_allocation_template"}, risk_level : Tiers]
    \cup [op : {"_calculate_portfolio_statistics"}, portfolio : Portfolios]
    \cup [op : {"_get_risk_factors"}, years : RiskMonths, volatility : RiskVolatilities]
    \cup [op : {"calculate_projections"}, budget_ngn : ProjectionBudgets,
          risk_level : ProjectionTiers, time_horizon : Horizons,
          portfolio : ProjectionPortfolios]
    \cup [op : {"get_stock_price"}, symbol : Symbols \cup {"TSLA"}]
    \cup [op : {"get_fx_rate"}]
    \cup [op : {"api_market_stock_price"}, symbol : {"AAPL", "TSLA"}]
    \cup [op : {"build_portfolio"}, budget_ngn : {4, 5000000},
          risk_level : {low, medium, high}, time_horizon : {[str |-> Label_1_year]}]
    \cup [op : {"build_portfolio"}, budget_ngn : {5000019},
          risk_level : {high}, time_horizon : {[str |-> Label_1_year]}]

(* The requests of the handlers that call the generation service: the body  *)
(* of a portfolio or projections request, and an uploaded file with its     *)
(* form field, whose reading or writing may fail                            *)
ApiRequests ==
    [op : {"api_portfolio_build"}, budget_ngn : {5000000},
     risk_level : {medium}, time_horizon : {[str |-> Label_1_year]}]
    \cup [op : {"api_portfolio_projections"}, budget_ngn : {5000000},
          risk_level : {high}, time_horizon : {[str |-> Label_6_months]},
          portfolio : {None, Some(TemplatePortfolio(low))}]
    \cup [op : {"api_analysis_sec_filing", "api_analysis_earnings_call"},
          filename : {None, Some(<<>>), Some(<<"q", "3", ".", "t", "x", "t">>),
                      Some(<<"q", "3", ".", "p", "d", "f">>),
                      Some(<<"Q", "3", ".", "v", "1", ".", "P", "D", "F">>),
                      Some(<<"q", "3", ".", "m", "p", "3">>),
                      Some(<<"Q", "3", ".", "v", "1", ".", "W", "A", "V">>)},
          symbol : {<<"k", "o">>}, read : {"ok", "raises"}, write : {"ok", "raises"}]

(* The budgets of build_portfolio are such that no share of them lies       *)
(* halfway between two hundredths, where binary floating point decides the  *)
(* rounding.                                                                *)
(* The providers' answers matter to the two getters and to build_portfolio  *)
(* (which is not run on the rate 0.01: the dollar amounts would leave the   *)
(* range of the model's integers)                                           *)
InitCalc ==
    /\ InitService
    /\ request \in CalcRequests
    /\ quote \in (IF request.op \in {"get_stock_price", "api_market_stock_price"}
                  THEN {[AllFail EXCEPT ![request.symbol] = a] : a \in QuoteAnswers}
                  ELSE IF request.op = "build_portfolio" THEN GroupedQuotes
                  ELSE {AllFail})
    /\ ngn_rate \in (IF request.op = "get_fx_rate" THEN RateAnswers
                     ELSE IF request.op = "build_portfolio" THEN RateAnswers \ {Number(6)}
                     ELSE {Error})
    /\ generation = [upload |-> "ok", content |-> [kind |-> "ServerError"]]
    /\ tmp_dir = {}
    /\ last = NoCall
    /\ prev = NoCall
    /\ threads = NoThreads

(* One request to a handler that calls the generation service, with what    *)
(* that service and the rate provider do during it                          *)
InitApi ==
    /\ InitService
    /\ request \in ApiRequests
    /\ quote = AllFail
    /\ ngn_rate \in (IF request.op = "api_portfolio_build" THEN {Error, Number(4)}
                     ELSE {Error})
    /\ generation \in (IF request.op \in {"api_analysis_sec_filing",
                                          "api_analysis_earnings_call"}
                       THEN Generations
                       ELSE {g \in Generations : g.upload = "ok"})
    /\ tmp_dir = {}
    /\ last = NoCall
    /\ prev = NoCall
    /\ threads = NoThreads

Complete(result, locals) ==
    /\ last' = Done(request, result, locals)
    /\ prev' = IF last.call.op = "build_portfolio" THEN last ELSE prev
    /\ request' = NoRequest
    /\ UNCHANGED <<service, quote, ngn_rate, threads, generation, tmp_dir>>

CalculateUsdBuyingPower ==
    /\ request.op = "calculate_usd_buying_power"
    /\ Complete(calculate_usd_buying_power(request.budget_ngn, request.fx_rate), NoLocals)

CalculateAllocation ==
    /\ request.op = "calculate_allocation"
    /\ Complete(calculate_allocation(request.budget_ngn, request.allocation_percent,
                                     request.fx_rate), NoLocals)

CalculateFractionalShares ==
    /\ request.op = "calculate_fractional_shares"
    /\ Complete(calculate_fractional_shares(request.allocation_usd,
                                            request.stock_price_usd), NoLocals)

GetAllocationTemplate ==
    /\ request.op = "get_allocation_template"
    /\ Complete(Return(get_allocation_template(request.risk_level)), NoLocals)

CalculatePortfolioStatistics ==
    /\ request.op = "_calculate_portfolio_statistics"
    /\ Complete(_calculate_portfolio_statistics(request.portfolio),
                StatsFrame(request.portfolio))

GetRiskFactors ==
    /\ request.op = "_get_risk_factors"
    /\ Complete(Return(_get_risk_factors(request.years, request.volatility)), NoLocals)

(* Faulty variant: the call stores the total volatility it computed in     *)
(* self.fx_characteristics                                                 *)
CalculateProjectionsStoring ==
    /\ request.op = "calculate_projections"
    /\ LET f == ProjectionFrame(request.budget_ngn, request.risk_level,
                                request.time_horizon, request.portfolio)
       IN  /\ last' = Done(request, calculate_projections(request.budget_ngn,
                               request.risk_level, request.time_horizon,
                               request.portfolio), f)
           /\ fx_characteristics' =
                 IF f.status = "ok"
                 THEN [fx_characteristics EXCEPT !.fx_volatility = f.total_volatility]
                 ELSE fx_characteristics
    /\ prev' = IF last.call.op = "build_portfolio" THEN last ELSE prev
    /\ request' = NoRequest
    /\ UNCHANGED <<approved_assets, asset_characteristics, quote, ngn_rate, threads,
                   generation, tmp_dir>>

CalculateProjections ==
    /\ request.op = "calculate_projections"
    /\ Complete(calculate_projections(request.budget_ngn, request.risk_level,
                                      request.time_horizon, request.portfolio),
                ProjectionFrame(request.budget_ngn, request.risk_level,
                                request.time_horizon, request.portfolio))

GetStockPrice ==
    /\ request.op = "get_stock_price"
    /\ Complete(Return(get_stock_price(request.symbol)), NoLocals)

GetFxRate ==
    /\ request.op = "get_fx_rate"
    /\ Complete(Return(get_fx_rate), NoLocals)

ApiStockPrice ==
    /\ request.op = "api_market_stock_price"
    /\ Complete(api_market_stock_price(request.symbol), NoLocals)

ApiPortfolioBuild ==
    /\ request.op = "api_portfolio_build"
    /\ Complete(api_portfolio_build(request.budget_ngn, request.risk_level,
                                    request.time_horizon), NoLocals)

ApiPortfolioProjections ==
    /\ request.op = "api_portfolio_projections"
    /\ Complete(api_portfolio_projections(request.budget_ngn, request.risk_level,
                                          request.time_horizon, request.portfolio),
                NoLocals)

(* A handler that works on a temporary file: its response, and the files    *)
(* it leaves                                                                *)
CompleteUpload(outcome) ==
    /\ last' = Done(request, outcome.response, NoLocals)
    /\ tmp_dir' = outcome.tmp_dir
    /\ request' = NoRequest
    /\ UNCHANGED <<service, quote, ngn_rate, prev, threads, generation>>

(* POST /api/analysis/sec-filing *)
AnalyzeSecFiling ==
    /\ request.op = "api_analysis_sec_filing"
    /\ CompleteUpload(UploadHandler(
            << <<".", "p", "d", "f">> >>,
            <<".", "p", "d", "f">>,
            analyze_sec_pdf(NamedTemporaryFile(<<".", "p", "d", "f">>),
                            [i \in DOMAIN request.symbol |->
                                UpperChar(request.symbol[i])])))

(* POST /api/analysis/earnings-call *)
AnalyzeEarningsCall ==
    /\ request.op = "api_analysis_earnings_call"
    /\ CompleteUpload(UploadHandler(
            << <<".", "m", "p", "3">>, <<".", "w", "a", "v">>, <<".", "m", "4", "a">>,
               <<".", "o", "g", "g">>, <<".", "f", "l", "a", "c">> >>,
            suffix(request.filename.list),
            analyze_earnings_audio(NamedTemporaryFile(suffix(request.filename.list)),
                                   [i \in DOMAIN request.symbol |->
                                       UpperChar(request.symbol[i])])))

-----------------------------------------------------------------------------
(* The service with its collaborators: build_portfolio runs, one after the *)
(* other, while the providers' answers change between them                 *)

BuildBudgets == {33333, 5000000}

BuildTiers == {low, medium, <<"H","i","g","h">>, <<"a","g","g","r","e","s","s","i","v","e">>}

BuildHorizons == {[str |-> Label_1_year], [int |-> 6]}

QuoteTables == {AllFail, LiveQuotes}

BuildRates == {Error, Number(1600004)}

Init ==
    /\ InitService
    /\ quote \in QuoteTables
    /\ ngn_rate \in BuildRates
    /\ generation = [upload |-> "ok", content |-> [kind |-> "ServerError"]]
    /\ tmp_dir = {}
    /\ request = NoRequest
    /\ last = NoCall
    /\ prev = NoCall
    /\ threads = NoThreads

ProviderAnswers ==
    /\ quote' \in QuoteTables
    /\ ngn_rate' \in BuildRates
    /\ UNCHANGED <<service, request, last, prev, threads, generation, tmp_dir>>

BuildPortfolio ==
    \E budget_ngn \in BuildBudgets, risk_level \in BuildTiers, time_horizon \in BuildHorizons :
        /\ last' = Done([op |-> "build_portfolio", budget_ngn |-> budget_ngn,
                         risk_level |-> risk_level, time_horizon |-> time_horizon,
                         quote |-> quote, ngn_rate |-> ngn_rate],
                        build_portfolio(budget_ngn, risk_level, time_horizon),
                        [allocation_template |-> get_allocation_template(risk_level)])
        /\ prev' = last
        /\ UNCHANGED <<service, quote, ngn_rate, request, threads, generation, tmp_dir>>

Next ==
    \/ ProviderAnswers
    \/ BuildPortfolio

Spec == Init /\ [][Next]_vars

-----------------------------------------------------------------------------
(* Calls one after the other on one instance: a caller draws a call, of     *)
(* build_portfolio or of another operation that reads the tables or the     *)
(* providers, and the service completes it before the next is drawn, while  *)
(* the providers' answers change between the calls.  A completed            *)
(* build_portfolio call records the providers' answers it ran on and the    *)
(* operation that was called just before it.                                *)

RunRequests ==
    [op : {"build_portfolio"}, budget_ngn : {5000000}, risk_level : {low, medium},
     time_horizon : {[str |-> Label_1_year]}]
    \cup [op : {"calculate_projections"}, budget_ngn : {5000000}, risk_level : {high},
          time_horizon : {[int |-> 6]}, portfolio : {None}]
    \cup [op : {"get_allocation_template"}, risk_level : {high}]
    \cup [op : {"get_stock_price"}, symbol : {"KO"}]
    \cup [op : {"get_fx_rate"}]

Draw ==
    /\ request = NoRequest
    /\ request' \in RunRequests
    /\ UNCHANGED <<service, quote, ngn_rate, last, prev, threads, generation, tmp_dir>>

RunBuildPortfolio ==
    /\ request.op = "build_portfolio"
    /\ last' = Done([op |-> "build_portfolio", budget_ngn |-> request.budget_ngn,
                     risk_level |-> request.risk_level,
                     time_horizon |-> request.time_horizon,
                     quote |-> quote, ngn_rate |-> ngn_rate, after |-> last.call.op],
                    build_portfolio(request.budget_ngn, request.risk_level,
                                    request.time_horizon),
                    [allocation_template |-> get_allocation_template(request.risk_level)])
    /\ prev' = IF last.call.op = "build_portfolio" THEN last ELSE prev
    /\ request' = NoRequest
    /\ UNCHANGED <<service, quote, ngn_rate, threads, generation, tmp_dir>>

NextCalc ==
    \/ CalculateUsdBuyingPower
    \/ CalculateAllocation
    \/ CalculateFractionalShares
    \/ GetAllocationTemplate
    \/ CalculatePortfolioStatistics
    \/ GetRiskFactors
    \/ CalculateProjections
    \/ GetStockPrice
    \/ GetFxRate
    \/ ApiStockPrice
    \/ RunBuildPortfolio

SpecCalc == InitCalc /\ [][NextCalc]_vars

(* One request to a handler of main.py that also calls GeminiService *)
NextApi ==
    \/ ApiPortfolioBuild
    \/ ApiPortfolioProjections
    \/ AnalyzeSecFiling
    \/ AnalyzeEarningsCall

SpecApi == InitApi /\ [][NextApi]_vars

NextRuns ==
    \/ ProviderAnswers
    \/ Draw
    \/ RunBuildPortfolio
    \/ CalculateProjections
    \/ GetAllocationTemplate
    \/ GetStockPrice
    \/ GetFxRate

SpecRuns == Init /\ [][NextRuns]_vars

-----------------------------------------------------------------------------
(* Callers side by side on one instance.  A caller enters one call and runs *)
(* it to its end; build_portfolio advances one provider request at a time,  *)
(* so other callers' steps and changes of the providers' answers fall       *)
(* between its requests.  The other operations make at most one request and *)
(* are one step each.                                                       *)

ThreadCalls ==
    [op : {"build_portfolio"}, budget_ngn : {5000000}, risk_level : {low, medium},
     time_horizon : {[int |-> 6]}]
    \cup [op : {"calculate_projections"}, budget_ngn : {5000000}, risk_level : {high},
          time_horizon : {[str |-> Label_1_year]},
          portfolio : {None, Some(TemplatePortfolio(low))}]
    \cup [op : {"get_allocation_template"}, risk_level : {high}]
    \cup [op : {"get_stock_price"}, symbol : {"KO"}]
    \cup [op : {"get_fx_rate"}]
    \cup [op : {"calculate_usd_buying_power"}, budget_ngn : {5000000}, fx_rate : {154000}]
    \cup [op : {"calculate_allocation"}, budget_ngn : {5000000},
          allocation_percent : {50}, fx_rate : {154000}]
    \cup [op : {"calculate_fractional_shares"}, allocation_usd : {1623},
          stock_price_usd : {58000}]

(* A caller's frame: the call, where it stands, the callers that were in a  *)
(* call when it entered, the requests it has made to the providers so far  *)
(* (the rate of "USD" or the price of a symbol) with their answers, its     *)
(* local variables and, at the end, what it returned or raised.             *)
Entered(call, running) ==
    [call |-> call,
     pc |-> IF call.op = "build_portfolio" THEN "fx_rate" ELSE "call",
     beside |-> running,
     heard |-> <<>>,
     locals |-> NoLocals,
     result |-> [status |-> "running"]]

Finished(frame, answers, result) ==
    [frame EXCEPT !.pc = "done", !.heard = frame.heard \o answers, !.result = result]

Advance(t, frame) ==
    /\ threads' = [threads EXCEPT ![t] = frame]
    /\ UNCHANGED <<service, quote, ngn_rate, request, last, prev, generation, tmp_dir>>

Enter(t) ==
    /\ threads[t].pc = "idle"
    /\ \E call \in ThreadCalls :
          Advance(t, Entered(call, {u \in Threads : threads[u].pc \notin {"idle", "done"}}))

(* Faulty variant: a rate that is not positive is replaced by the fallback  *)
(* rate and the build goes on                                               *)
BuildFetchRateLenient(t) ==
    /\ threads[t].pc = "fx_rate"
    /\ LET frame == threads[t]
           fx_rate == IF get_fx_rate <= 0 THEN _get_fallback_fx_rate ELSE get_fx_rate
           usd_buying_power == calculate_usd_buying_power(frame.call.budget_ngn, fx_rate)
       IN  Advance(t, [frame EXCEPT
                    !.pc = "asset",
                    !.heard = <<[asked |-> "USD", answer |-> ngn_rate]>>,
                    !.locals = [fx_rate |-> fx_rate,
                                usd_buying_power |-> usd_buying_power.value,
                                allocation_template |->
                                    get_allocation_template(frame.call.risk_level),
                                portfolio |-> <<>>]])

(* build_portfolio, steps 1 and 2: the FX rate, the buying power, the template *)
BuildFetchRate(t) ==
    /\ threads[t].pc = "fx_rate"
    /\ LET frame == threads[t]
           fx_rate == get_fx_rate
           usd_buying_power == calculate_usd_buying_power(frame.call.budget_ngn, fx_rate)
       IN  IF usd_buying_power.status # "ok"
           THEN Advance(t, Finished(frame, <<[asked |-> "USD", answer |-> ngn_rate]>>,
                                 Raise(usd_buying_power.status)))
           ELSE Advance(t, [frame EXCEPT
                    !.pc = "asset",
                    !.heard = <<[asked |-> "USD", answer |-> ngn_rate]>>,
                    !.locals = [fx_rate |-> fx_rate,
                                usd_buying_power |-> usd_buying_power.value,
                                allocation_template |->
                                    get_allocation_template(frame.call.risk_level),
                                portfolio |-> <<>>]])

(* Faulty variant: the pass keeps the price it fetched in the shared        *)
(* catalog entry of the symbol                                              *)
BuildPriceAssetCaching(t) ==
    /\ threads[t].pc = "asset"
    /\ LET frame == threads[t]
           asset == frame.locals.allocation_template[Len(frame.locals.portfolio) + 1]
           asking == [asked |-> asset.symbol, answer |-> quote[asset.symbol]]
           entry == LoopBody(asset, frame.call.budget_ngn, frame.locals.fx_rate)
       IN  /\ threads' = [threads EXCEPT ![t] =
                  IF entry.status # "ok"
                  THEN Finished(frame, <<asking>>, Raise(entry.status))
                  ELSE [frame EXCEPT
                          !.pc = IF Len(frame.locals.portfolio) + 1
                                      = Len(frame.locals.allocation_template)
                                 THEN "projection" ELSE "asset",
                          !.heard = Append(frame.heard, asking),
                          !.locals.portfolio = Append(frame.locals.portfolio, entry.value)]]
           /\ asset_characteristics' =
                 [asset_characteristics EXCEPT ![asset.symbol] =
                     [f \in DOMAIN @ \cup {"price_usd"} |->
                         IF f = "price_usd" THEN get_stock_price(asset.symbol) ELSE @[f]]]
    /\ UNCHANGED <<approved_assets, fx_characteristics, quote, ngn_rate, request, last,
                   prev, generation, tmp_dir>>

(* Faulty variant: each pass asks the provider for the rate again *)
BuildPriceAssetRefetching(t) ==
    /\ threads[t].pc = "asset"
    /\ LET frame == threads[t]
           asset == frame.locals.allocation_template[Len(frame.locals.portfolio) + 1]
           asking == [asked |-> asset.symbol, answer |-> quote[asset.symbol]]
           entry == LoopBody(asset, frame.call.budget_ngn, get_fx_rate)
       IN  IF entry.status # "ok"
           THEN Advance(t, Finished(frame, <<asking>>, Raise(entry.status)))
           ELSE Advance(t, [frame EXCEPT
                    !.pc = IF Len(frame.locals.portfolio) + 1
                                = Len(frame.locals.allocation_template)
                           THEN "projection" ELSE "asset",
                    !.heard = Append(frame.heard, asking),
                    !.locals.portfolio = Append(frame.locals.portfolio, entry.value)])

(* build_portfolio, step 3: one pass of the loop, for the next asset *)
BuildPriceAsset(t) ==
    /\ threads[t].pc = "asset"
    /\ LET frame == threads[t]
           asset == frame.locals.allocation_template[Len(frame.locals.portfolio) + 1]
           asking == [asked |-> asset.symbol, answer |-> quote[asset.symbol]]
           entry == LoopBody(asset, frame.call.budget_ngn, frame.locals.fx_rate)
       IN  IF entry.status # "ok"
           THEN Advance(t, Finished(frame, <<asking>>, Raise(entry.status)))
           ELSE Advance(t, [frame EXCEPT
                    !.pc = IF Len(frame.locals.portfolio) + 1
                                = Len(frame.locals.allocation_template)
                           THEN "projection" ELSE "asset",
                    !.heard = Append(frame.heard, asking),
                    !.locals.portfolio = Append(frame.locals.portfolio, entry.value)])

(* build_portfolio, steps 4 and 5: the projection and the response *)
BuildProject(t) ==
    /\ threads[t].pc = "projection"
    /\ LET frame == threads[t]
       IN  Advance(t, Finished(frame, <<>>,
                BuildResponse(frame.call.budget_ngn, frame.call.risk_level,
                              frame.call.time_horizon, frame.locals.fx_rate,
                              frame.locals.usd_buying_power, frame.locals.portfolio)))

ThreadCalculateProjections(t) ==
    /\ threads[t].pc = "call" /\ threads[t].call.op = "calculate_projections"
    /\ LET call == threads[t].call
       IN  Advance(t, Finished(threads[t], <<>>,
                calculate_projections(call.budget_ngn, call.risk_level,
                                      call.time_horizon, call.portfolio)))

ThreadGetAllocationTemplate(t) ==
    /\ threads[t].pc = "call" /\ threads[t].call.op = "get_allocation_template"
    /\ Advance(t, Finished(threads[t], <<>>,
            Return(get_allocation_template(threads[t].call.risk_level))))

ThreadGetStockPrice(t) ==
    /\ threads[t].pc = "call" /\ threads[t].call.op = "get_stock_price"
    /\ Advance(t, Finished(threads[t],
            <<[asked |-> threads[t].call.symbol, answer |-> quote[threads[t].call.symbol]]>>,
            Return(get_stock_price(threads[t].call.symbol))))

ThreadGetFxRate(t) ==
    /\ threads[t].pc = "call" /\ threads[t].call.op = "get_fx_rate"
    /\ Advance(t, Finished(threads[t], <<[asked |-> "USD", answer |-> ngn_rate]>>,
                           Return(get_fx_rate)))

(* The three calculators read their arguments alone *)
ThreadCalculate(t) ==
    /\ threads[t].pc = "call"
    /\ LET call == threads[t].call
       IN  \/ /\ call.op = "calculate_usd_buying_power"
              /\ Advance(t, Finished(threads[t], <<>>,
                      calculate_usd_buying_power(call.budget_ngn, call.fx_rate)))
           \/ /\ call.op = "calculate_allocation"
              /\ Advance(t, Finished(threads[t], <<>>,
                      calculate_allocation(call.budget_ngn, call.allocation_percent,
                                           call.fx_rate)))
           \/ /\ call.op = "calculate_fractional_shares"
              /\ Advance(t, Finished(threads[t], <<>>,
                      calculate_fractional_shares(call.allocation_usd,
                                                  call.stock_price_usd)))

(* The providers' answers change while the callers run: prices and rates    *)
(* come and go, and an answer may be a value below half a cent              *)
ThreadProviderAnswers ==
    /\ quote' \in {AllFail, [LiveQuotes EXCEPT !["AAPL"] = Number(4)]}
    /\ ngn_rate' \in BuildRates \cup {Number(4)}
    /\ UNCHANGED <<service, request, last, prev, threads, generation, tmp_dir>>

NextThreads ==
    \/ ThreadProviderAnswers
    \/ \E t \in Threads : Enter(t)
    \/ \E t \in Threads : BuildFetchRate(t)
    \/ \E t \in Threads : BuildPriceAsset(t)
    \/ \E t \in Threads : BuildProject(t)
    \/ \E t \in Threads : ThreadCalculateProjections(t)
    \/ \E t \in Threads : ThreadGetAllocationTemplate(t)
    \/ \E t \in Threads : ThreadGetStockPrice(t)
    \/ \E t \in Threads : ThreadGetFxRate(t)
    \/ \E t \in Threads : ThreadCalculate(t)

SpecThreads == Init /\ [][NextThreads]_vars

-----------------------------------------------------------------------------
(* Properties *)

(* t is the word w written in some mix of upper and lower case letters *)
SameLetters(t, w) ==
    /\ Len(t) = Len(w)
    /\ \A i \in DOMAIN w : t[i] \in {w[i], UpperChar(w[i])}

Unrecognised(t) == \A w \in {low, medium, high} : ~SameLetters(t, w)

SymbolPercents(template) ==
    [i \in DOMAIN template |-> <<template[i].symbol, template[i].percent>>]

IsBuild(c) == c.call.op = "build_portfolio"

(* Two build_portfolio calls with the same budget, horizon, prices and FX   *)
(* rate, the first with an unrecognised tier and the second with "medium"  *)
UnknownAndMedium(a, b) ==
    /\ IsBuild(a) /\ IsBuild(b)
    /\ Unrecognised(a.call.risk_level)
    /\ b.call.risk_level = medium
    /\ a.call.budget_ngn = b.call.budget_ngn
    /\ a.call.time_horizon = b.call.time_horizon
    /\ a.call.quote = b.call.quote
    /\ a.call.ngn_rate = b.call.ngn_rate

(* C1, as stated: for a tier string that is not low, medium or high in any  *)
(* letter case, get_allocation_template returns the medium template and    *)
(* build_portfolio returns the same output as it returns for "medium" on   *)
(* the same budget, horizon, prices and FX rate.                           *)
C1_SameOutputAsMedium ==
    /\ IsBuild(last) /\ Unrecognised(last.call.risk_level)
         => SymbolPercents(last.locals.allocation_template)
              = << <<"SPY", 50>>, <<"AAPL", 30>>, <<"KO", 20>> >>
    /\ UnknownAndMedium(last, prev) => last.result = prev.result
    /\ UnknownAndMedium(prev, last) => prev.result = last.result

SameButTier(a, b) ==
    /\ a.locals.allocation_template = b.locals.allocation_template
    /\ a.result.status = "ok"
    /\ b.result.status = "ok"
    /\ a.result.value.risk_level = a.call.risk_level
    /\ b.result.value.risk_level = medium
    /\ [a.result.value EXCEPT !.risk_level = medium] = b.result.value

(* C1, amended: for a tier string that is not low, medium or high in any    *)
(* letter case, get_allocation_template returns the medium template, and   *)
(* build_portfolio returns the output it returns for "medium" on the same  *)
(* budget, horizon, prices and FX rate in every field but risk_level,      *)
(* which echoes the string that was passed.                                *)
C1_SameOutputButTier ==
    /\ IsBuild(last) /\ Unrecognised(last.call.risk_level)
         => SymbolPercents(last.locals.allocation_template)
              = << <<"SPY", 50>>, <<"AAPL", 30>>, <<"KO", 20>> >>
    /\ UnknownAndMedium(last, prev) => SameButTier(last, prev)
    /\ UnknownAndMedium(prev, last) => SameButTier(prev, last)

C1_Witness ==
    /\ UnknownAndMedium(last, prev)
    /\ last.result.status = "ok"
    /\ Len(last.result.value.portfolio) = 3

IsCall(op) == last.call.op = op

TemplatesAsFixed ==
    IsCall("get_allocation_template") =>
        LET t == last.call.risk_level
            got == SymbolPercents(last.result.value)
        IN  /\ SameLetters(t, low) => got = << <<"VOO", 70>>, <<"JNJ", 30>> >>
            /\ SameLetters(t, medium)
                 => got = << <<"SPY", 50>>, <<"AAPL", 30>>, <<"KO", 20>> >>
            /\ SameLetters(t, high)
                 => got = << <<"VOO", 40>>, <<"AAPL", 35>>, <<"MSFT", 25>> >>

(* C2: get_allocation_template recognises low, medium and high in any       *)
(* letter case and returns the fixed ordered templates low = [VOO 70,       *)
(* JNJ 30], medium = [SPY 50, AAPL 30, KO 20], high = [VOO 40, AAPL 35,     *)
(* MSFT 25]; the call leaves the service's tables as they were.            *)
C2_FixedTemplates ==
    /\ []TemplatesAsFixed
    /\ [][request.op = "get_allocation_template" => UNCHANGED service]_vars

C2_Witness ==
    /\ IsCall("get_allocation_template")
    /\ last.call.risk_level = <<"H", "i", "G", "h">>
    /\ Len(last.result.value) = 3
    /\ last.result.value[3].symbol = "MSFT"

(* C3: calculate_usd_buying_power returns budget / fx_rate rounded to two   *)
(* decimal places (no further from the quotient than half a hundredth) for *)
(* every fx_rate > 0, and raises the invalid-rate error, returning no      *)
(* value, for every fx_rate <= 0.                                          *)
C3_BuyingPower ==
    IsCall("calculate_usd_buying_power") =>
        LET b == last.call.budget_ngn
            r == last.call.fx_rate
        IN  /\ r > 0 => /\ last.result.status = "ok"
                        /\ 2 * Abs(100 * b - last.result.value * r) <= r
            /\ r <= 0 => /\ last.result.status = "ValueError"
                         /\ "value" \notin DOMAIN last.result

C3_Witness ==
    /\ IsCall("calculate_usd_buying_power")
    /\ last.call.fx_rate > 0
    /\ last.call.budget_ngn > 0
    /\ 2 * ((100 * last.call.budget_ngn) % last.call.fx_rate) > last.call.fx_rate
    /\ last.result.status = "ok"

(* C4: calculate_allocation raises the invalid-rate error of                *)
(* calculate_usd_buying_power for every fx_rate <= 0, zero and negative    *)
(* alike, instead of returning amounts; for fx_rate > 0 it returns         *)
(* amount_local = budget * percent / 100 and amount_quote = amount_local / *)
(* fx_rate (each to the hundredth).                                        *)
C4_AllocationRejectsBadRate ==
    IsCall("calculate_allocation") =>
        LET b == last.call.budget_ngn
            pc == last.call.allocation_percent
            r == last.call.fx_rate
        IN  /\ r <= 0 => last.result.status = "ValueError"
            /\ r > 0 => /\ last.result.status = "ok"
                        /\ 2 * Abs(b * pc - 100 * last.result.value.amount_ngn) <= 100
                        /\ 2 * Abs(b * pc - r * last.result.value.amount_usd) <= r

(* C5: calculate_fractional_shares returns amount_quote / unit_price        *)
(* rounded to three decimal places for every unit_price > 0: the nearest   *)
(* thousandth, and the even one when two are equally near; it raises the   *)
(* invalid-price error, returning no value, for every unit_price <= 0.     *)
C5_FractionalShares ==
    IsCall("calculate_fractional_shares") =>
        LET a == last.call.allocation_usd
            p == last.call.stock_price_usd
        IN  /\ p > 0 =>
                /\ last.result.status = "ok"
                /\ \A n \in {last.result.value - 1, last.result.value + 1} :
                      \/ Abs(1000 * a - last.result.value * p) < Abs(1000 * a - n * p)
                      \/ /\ Abs(1000 * a - last.result.value * p) = Abs(1000 * a - n * p)
                         /\ last.result.value % 2 = 0
            /\ p <= 0 => /\ last.result.status = "ValueError"
                         /\ "value" \notin DOMAIN last.result

C5_Witness ==
    /\ IsCall("calculate_fractional_shares")
    /\ last.call.stock_price_usd <= 0
    /\ last.call.allocation_usd > 0
    /\ last.result.status = "ValueError"

(* C6: for all amount_quote > 0 and unit_price > 0 the sized position       *)
(* satisfies |fractional_units * unit_price - amount_quote| <=              *)
(* 0.0005 * unit_price.                                                    *)
C6_SizingInverse ==
    IsCall("calculate_fractional_shares")
        /\ last.call.allocation_usd > 0 /\ last.call.stock_price_usd > 0
    => /\ last.result.status = "ok"
       /\ 2 * Abs(last.result.value * last.call.stock_price_usd
                    - 1000 * last.call.allocation_usd)
            <= last.call.stock_price_usd

C6_Witness ==
    /\ IsCall("calculate_fractional_shares")
    /\ last.call.allocation_usd = 1623
    /\ last.call.stock_price_usd = 6200
    /\ last.result.status = "ok"
    /\ last.result.value * last.call.stock_price_usd # 1000 * last.call.allocation_usd

RECURSIVE SumOf(_)
SumOf(q) == IF q = <<>> THEN 0 ELSE Head(q) + SumOf(Tail(q))

CatalogReturn(symbol) ==
    IF symbol \in DOMAIN asset_characteristics
    THEN asset_characteristics[symbol].expected_return
    ELSE 1000

CatalogVolatility(symbol) ==
    IF symbol \in DOMAIN asset_characteristics
    THEN asset_characteristics[symbol].volatility
    ELSE 1800

(* v is sqrt(n) to the nearest unit *)
NearestRoot(v, n) ==
    /\ v >= 0
    /\ 4 * n <= (2 * v + 1) * (2 * v + 1)
    /\ v = 0 \/ (2 * v - 1) * (2 * v - 1) <= 4 * n

(* C7: for every list of positions, _calculate_portfolio_statistics returns *)
(* expected_return = sum of (allocation_percent / 100) * expected_return    *)
(* and volatility = sqrt(sum of ((allocation_percent / 100) * volatility)   *)
(* squared), with no cross terms and no normalisation of the weights; a     *)
(* symbol absent from the catalog counts with return 0.10 and volatility    *)
(* 0.18 and never makes the call fail.                                      *)
C7_WeightedStatistics ==
    IsCall("_calculate_portfolio_statistics") =>
        LET q == last.call.portfolio
            returns == [i \in DOMAIN q |->
                          q[i].allocation_percent * CatalogReturn(q[i].symbol)]
            squares == [i \in DOMAIN q |->
                          ((q[i].allocation_percent * CatalogVolatility(q[i].symbol)) \div 100)
                        * ((q[i].allocation_percent * CatalogVolatility(q[i].symbol)) \div 100)]
        IN  /\ last.result.status = "ok"
            /\ 100 * last.result.value.expected_return = SumOf(returns)
            /\ NearestRoot(last.result.value.volatility, SumOf(squares))

C7_Witness ==
    /\ IsCall("_calculate_portfolio_statistics")
    /\ Len(last.call.portfolio) = 2
    /\ last.call.portfolio[1].symbol = "TSLA"
    /\ last.call.portfolio[1].allocation_percent = 120
    /\ last.call.portfolio[2].symbol = "AAPL"
    /\ last.call.portfolio[2].allocation_percent = 30
    /\ last.result.status = "ok"
    /\ last.result.value.expected_return = 1650

NonNegativeHorizon(h) == IF "int" \in DOMAIN h THEN h.int >= 0 ELSE TRUE

(* C8: for every combination of position weights and catalog volatilities   *)
(* the portfolio variance and the total variance (portfolio volatility      *)
(* squared + fx_vol squared + 2 * 0.3 * portfolio volatility * fx_vol) are  *)
(* >= 0, so portfolio volatility and total volatility are defined and >= 0. *)
C8_VarianceNonNegative ==
    /\ IsCall("_calculate_portfolio_statistics") =>
          /\ last.locals.weighted_variance >= 0
          /\ last.result.status = "ok"
          /\ last.result.value.volatility >= 0
    /\ IsCall("calculate_projections") /\ NonNegativeHorizon(last.call.time_horizon) =>
          /\ last.locals.status = "ok"
          /\ last.locals.portfolio_volatility >= 0
          /\ last.locals.total_variance >= 0
          /\ 10 * last.locals.total_variance
                = 10 * last.locals.portfolio_volatility * last.locals.portfolio_volatility
                  + 10 * last.locals.fx_vol * last.locals.fx_vol
                  + 2 * 3 * last.locals.portfolio_volatility * last.locals.fx_vol
          /\ last.locals.total_volatility >= 0

C8_Witness ==
    /\ IsCall("calculate_projections")
    /\ last.call.portfolio.some
    /\ Len(last.call.portfolio.list) = 1
    /\ last.call.portfolio.list[1].allocation_percent < 0
    /\ last.locals.status = "ok"
    /\ last.locals.portfolio_volatility > 0

(* C9: for every positive budget, every tier or portfolio and every horizon *)
(* >= 0 the projection has pessimistic value <= expected value <=           *)
(* optimistic value, computed and as reported; the exponents are ordered    *)
(* drift - 0.674 * diffusion <= drift <= drift + 0.674 * diffusion with     *)
(* diffusion >= 0.                                                          *)
C9_QuantileOrdering ==
    IsCall("calculate_projections") /\ last.call.budget_ngn > 0
        /\ NonNegativeHorizon(last.call.time_horizon)
    => /\ last.result.status = "ok"
       /\ last.locals.diffusion >= 0
       /\ last.locals.pessimistic_multiplier <= last.locals.expected_multiplier
       /\ last.locals.expected_multiplier <= last.locals.optimistic_multiplier
       /\ last.locals.pessimistic_value <= last.locals.expected_value
       /\ last.locals.expected_value <= last.locals.optimistic_value
       /\ last.result.value.scenarios.pessimistic.value
            <= last.result.value.scenarios.expected.value
       /\ last.result.value.scenarios.expected.value
            <= last.result.value.scenarios.optimistic.value

C9_Witness ==
    /\ IsCall("calculate_projections")
    /\ last.call.budget_ngn = 5000000
    /\ last.call.time_horizon = [str |-> Label_10_years]
    /\ last.call.portfolio = Some(TemplatePortfolio(high))
    /\ last.result.status = "ok"
    /\ last.result.value.scenarios.pessimistic.value
         < last.result.value.scenarios.expected.value
    /\ last.result.value.scenarios.expected.value
         < last.result.value.scenarios.optimistic.value

(* C10: when the horizon is an integer 0 months, drift and diffusion are    *)
(* both 0, all three multipliers equal 1, and the pessimistic, expected     *)
(* and optimistic values all equal the input budget exactly, for every      *)
(* budget, tier and portfolio (each is then reported as the budget in       *)
(* whole naira, like initial_investment).                                   *)
C10_ZeroHorizonIdentity ==
    IsCall("calculate_projections") /\ last.call.time_horizon = [int |-> 0]
    => /\ last.result.status = "ok"
       /\ last.locals.years = 0
       /\ last.locals.drift = 0
       /\ last.locals.diffusion = 0
       /\ last.locals.pessimistic_multiplier = Scale
       /\ last.locals.expected_multiplier = Scale
       /\ last.locals.optimistic_multiplier = Scale
       /\ last.locals.pessimistic_value = last.call.budget_ngn
       /\ last.locals.expected_value = last.call.budget_ngn
       /\ last.locals.optimistic_value = last.call.budget_ngn
       /\ \A k \in {"pessimistic", "expected", "optimistic"} :
             /\ last.result.value.scenarios[k].value
                  = last.result.value.initial_investment
             /\ last.result.value.scenarios[k].return_percent = 0

C10_Witness ==
    /\ IsCall("calculate_projections")
    /\ last.call.time_horizon = [int |-> 0]
    /\ last.call.budget_ngn = 5000050
    /\ last.call.portfolio = Some(TemplatePortfolio(medium))
    /\ last.result.status = "ok"
    /\ last.locals.total_volatility > 0
    /\ last.locals.expected_value = 5000050

(* Two completed build_portfolio calls with the same budget, tier and       *)
(* horizon, that ran on the same answers of the providers                  *)
SameRun(a, b) ==
    /\ IsBuild(a) /\ IsBuild(b)
    /\ a.call.budget_ngn = b.call.budget_ngn
    /\ a.call.risk_level = b.call.risk_level
    /\ a.call.time_horizon = b.call.time_horizon
    /\ a.call.quote = b.call.quote
    /\ a.call.ngn_rate = b.call.ngn_rate

(* C11: two runs of build_portfolio with the same budget, tier and horizon, *)
(* in which the providers answer the same prices and the same FX rate,      *)
(* return identical outputs, whatever other calls were made on the instance *)
(* between them.                                                            *)
C11_SameRunsSameOutput ==
    SameRun(prev, last) => last.result = prev.result

C11_Witness ==
    /\ SameRun(prev, last)
    /\ last.call.after = "calculate_projections"
    /\ last.call.quote = LiveQuotes
    /\ last.result.status = "ok"
    /\ last.result = prev.result

(* The worked example: budget 50,000.00, the medium tier, and providers     *)
(* whose requests fail, so that the prices are SPY 580.00, AAPL 230.00,     *)
(* KO 62.00 and the FX rate is 1540.00                                      *)
WorkedExample(c) ==
    /\ IsBuild(c)
    /\ c.call.budget_ngn = 5000000
    /\ c.call.risk_level = medium
    /\ c.call.quote = AllFail
    /\ c.call.ngn_rate = Error

(* C12: for budget 50,000, tier medium, prices SPY 580.00, AAPL 230.00,      *)
(* KO 62.00 and FX rate 1540.00, build_portfolio allocates SPY 25,000 naira  *)
(* / 16.23 dollars, AAPL 15,000 / 9.74, KO 10,000 / 6.49, and sizes the      *)
(* positions at 0.028, 0.042 and 0.105 shares.                               *)
C12_WorkedAllocations ==
    WorkedExample(last) =>
        /\ last.result.status = "ok"
        /\ last.result.value.fx_rate = 154000
        /\ LET q == last.result.value.portfolio
               usd == [i \in DOMAIN q |->
                         calculate_allocation(last.call.budget_ngn,
                             q[i].allocation_percent,
                             last.result.value.fx_rate).value.amount_usd]
           IN  /\ [i \in DOMAIN q |-> q[i].symbol] = <<"SPY", "AAPL", "KO">>
               /\ [i \in DOMAIN q |-> q[i].price_usd] = <<58000, 23000, 6200>>
               /\ [i \in DOMAIN q |-> q[i].amount_ngn] = <<2500000, 1500000, 1000000>>
               /\ usd = <<1623, 974, 649>>
               /\ [i \in DOMAIN q |-> q[i].fractional_shares] = <<28, 42, 105>>
               /\ \A i \in DOMAIN q :
                     calculate_fractional_shares(usd[i], q[i].price_usd)
                        = Return(q[i].fractional_shares)

C12_Witness ==
    /\ WorkedExample(last)
    /\ last.result.status = "ok"
    /\ Len(last.result.value.portfolio) = 3
    /\ last.result.value.portfolio[3].fractional_shares = 105
    /\ last.result.value.usd_buying_power = 3247

(* A projection of the positions of the medium template, over a horizon     *)
(* that is not negative                                                     *)
MediumProjection ==
    /\ IsCall("calculate_projections")
    /\ last.call.portfolio = Some(TemplatePortfolio(medium))
    /\ NonNegativeHorizon(last.call.time_horizon)

(* C13: for the medium template {SPY 50%, AAPL 30%, KO 20%} with the catalog *)
(* profiles, FX drift -0.04, FX volatility 0.10 and correlation 0.3, the     *)
(* engine computes portfolio expected return 0.109, portfolio variance       *)
(* 0.014625 (volatility about 0.1209), total return 0.149 and total          *)
(* volatility about 0.1786 (variance about 0.03188): the volatilities to     *)
(* within 0.0001 and the total variance to within 0.00001.                   *)
C13_MediumStatistics ==
    MediumProjection =>
        /\ last.locals.status = "ok"
        /\ SymbolPercents([i \in DOMAIN templates[medium] |->
                              [symbol |-> last.call.portfolio.list[i].symbol,
                               percent |-> last.call.portfolio.list[i].allocation_percent]])
              = << <<"SPY", 50>>, <<"AAPL", 30>>, <<"KO", 20>> >>
        /\ last.locals.fx_drift = -400
        /\ last.locals.fx_vol = 1000
        /\ last.locals.portfolio_return = 1090
        /\ StatsFrame(last.call.portfolio.list).weighted_variance = 1462500
        /\ Abs(last.locals.portfolio_volatility - 1209) <= 1
        /\ last.locals.total_return = 1490
        /\ Abs(last.locals.total_volatility - 1786) <= 1
        /\ Abs(last.locals.total_variance - 3188000) <= 1000

C13_Witness ==
    /\ MediumProjection
    /\ last.call.time_horizon = [str |-> Label_1_year]
    /\ last.locals.status = "ok"
    /\ last.locals.portfolio_return = 1090
    /\ last.locals.total_variance > 3000000

(* value is budget_ngn * multiplier, the multiplier at Scale, to the unit *)
IsProduct(value, budget_ngn, m) ==
    Abs(value - ((budget_ngn \div Scale) * m + ((budget_ngn % Scale) * m) \div Scale)) <= 1

(* C14: the projection is computed as total_return = portfolio_return -       *)
(* fx_drift, drift = (total_return - 0.5 * total_vol^2) * years, diffusion =  *)
(* total_vol * sqrt(years), multiplier = exp(drift + z * diffusion) with z =  *)
(* -0.674, 0, +0.674 for pessimistic, expected, optimistic, value = budget *  *)
(* multiplier and return percent = (multiplier - 1) * 100; for the medium     *)
(* 1-year scenario with budget 50,000 this gives expected about 57,118,       *)
(* pessimistic about 50,640 and optimistic about 64,421 (within 1%).          *)
C14_ProjectionFormula ==
    IsCall("calculate_projections") /\ NonNegativeHorizon(last.call.time_horizon)
        /\ last.call.budget_ngn >= 0
    => LET f == last.locals
           half_square == (f.total_return * f.years - 12 * f.drift)
           scenarios == last.result.value.scenarios
       IN  /\ f.status = "ok"
           /\ f.total_return = f.portfolio_return - f.fx_drift
           \* 12 * drift = (total_return - total_vol^2 / 2) * months, each rounding
           \* within half a unit
           /\ Abs(2 * Scale * half_square
                    - f.total_volatility * f.total_volatility * f.years)
                 <= Scale * f.years + 12 * Scale
           \* 12 * diffusion^2 = total_vol^2 * months
           /\ f.diffusion >= 0
           /\ Abs(12 * f.diffusion * f.diffusion
                    - f.total_volatility * f.total_volatility * f.years)
                 <= 15 * f.diffusion + 12
           /\ f.expected_multiplier = exp(f.drift)
           /\ f.pessimistic_multiplier = exp(f.drift - round(ZScore * f.diffusion, Thousand))
           /\ f.optimistic_multiplier = exp(f.drift + round(ZScore * f.diffusion, Thousand))
           /\ IsProduct(f.pessimistic_value, last.call.budget_ngn, f.pessimistic_multiplier)
           /\ IsProduct(f.expected_value, last.call.budget_ngn, f.expected_multiplier)
           /\ IsProduct(f.optimistic_value, last.call.budget_ngn, f.optimistic_multiplier)
           /\ 2 * Abs(10 * scenarios.pessimistic.return_percent
                        - (f.pessimistic_multiplier - Scale)) <= 10
           /\ 2 * Abs(10 * scenarios.expected.return_percent
                        - (f.expected_multiplier - Scale)) <= 10
           /\ 2 * Abs(10 * scenarios.optimistic.return_percent
                        - (f.optimistic_multiplier - Scale)) <= 10
           /\ last.call.budget_ngn = 5000000
                /\ last.call.portfolio = Some(TemplatePortfolio(medium))
                /\ f.years = 12
              => /\ Abs(scenarios.expected.value - 57118) * 100 <= 57118
                 /\ Abs(scenarios.pessimistic.value - 50640) * 100 <= 50640
                 /\ Abs(scenarios.optimistic.value - 64421) * 100 <= 64421
                 /\ Abs(f.expected_value - 5711800) * 100 <= 5711800

C14_Witness ==
    /\ IsCall("calculate_projections")
    /\ last.call.budget_ngn = 5000000
    /\ last.call.portfolio = Some(TemplatePortfolio(medium))
    /\ last.call.time_horizon = [str |-> Label_1_year]
    /\ last.result.status = "ok"
    /\ last.result.value.scenarios.expected.value > 57000
    /\ last.result.value.scenarios.pessimistic.value < 51000
    /\ last.result.value.scenarios.optimistic.value > 64000

HorizonNote(months) ==
    CASE months < 12 -> ShortTermNote
      [] months >= 12 /\ months < 24 -> MediumTermNote
      [] months >= 24 -> LongTermNote

(* C15, as stated: _get_risk_factors returns exactly four strings in this    *)
(* order: one horizon note (short-term when years < 1, medium-term when      *)
(* 1 <= years < 2, long-term when years >= 2), one volatility note (high     *)
(* when total_vol > 0.20, moderate when total_vol is in the 0.15 to 0.20     *)
(* band including both end points, lower when total_vol < 0.15), then the    *)
(* two fixed currency-risk statements.                                       *)
C15_RiskFactorsClosedBand ==
    IsCall("_get_risk_factors") =>
        LET v == last.call.volatility
        IN  last.result.value =
              << HorizonNote(last.call.years),
                 CASE v > 2000 -> HighVolNote
                   [] v >= 1500 /\ v <= 2000 -> ModerateVolNote
                   [] v < 1500 -> LowerVolNote,
                 FxRiskNote, MarketAccessNote >>

(* C15, amended: the same four strings in the same order, the volatility     *)
(* note being high when total_vol > 0.20, moderate when 0.15 < total_vol <=  *)
(* 0.20 and lower when total_vol <= 0.15; the list is a function of the two  *)
(* inputs.                                                                   *)
C15_RiskFactorsHalfOpenBand ==
    IsCall("_get_risk_factors") =>
        LET v == last.call.volatility
        IN  /\ Len(last.result.value) = 4
            /\ last.result.value =
                 << HorizonNote(last.call.years),
                    CASE v > 2000 -> HighVolNote
                      [] v > 1500 /\ v <= 2000 -> ModerateVolNote
                      [] v <= 1500 -> LowerVolNote,
                    FxRiskNote, MarketAccessNote >>

C15_Witness ==
    /\ IsCall("_get_risk_factors")
    /\ last.call.volatility = 1500
    /\ last.call.years = 12
    /\ last.result.value[1] = MediumTermNote
    /\ last.result.value[2] = LowerVolNote

(* The provider's request raised or timed out, or its answer lacks the      *)
(* value or carries one that is not positive                                *)
Fails(answer) ==
    \/ answer.kind \in {"error", "missing"}
    \/ answer.kind = "number" /\ answer.n <= 0

(* The provider answered a value that is positive to two decimals *)
Usable(answer) == answer.kind = "number" /\ 2 * answer.n > 10

FallbackPrice(symbol) ==
    CASE symbol = "VOO" -> 52000
      [] symbol = "SPY" -> 58000
      [] symbol = "AAPL" -> 23000
      [] symbol = "MSFT" -> 42500
      [] symbol = "JNJ" -> 15500
      [] symbol = "KO" -> 6200
      [] OTHER -> 10000

C17_GettersPositive ==
    /\ IsCall("get_stock_price") => last.result.status = "ok" /\ last.result.value > 0
    /\ IsCall("get_fx_rate") => last.result.status = "ok" /\ last.result.value > 0

(* C18: when the price request for a symbol fails, get_stock_price returns   *)
(* None (no price), and the /api/market/stock-price endpoint then answers    *)
(* 404 'Could not fetch price' instead of a success response carrying a      *)
(* price.                                                                    *)
C18_FailedPriceIsNotFound ==
    /\ IsCall("get_stock_price") /\ quote[last.call.symbol] = Error
         => "value" \notin DOMAIN last.result
    /\ IsCall("api_market_stock_price") /\ quote[last.call.symbol] = Error
         => /\ last.result.status_code = 404
            /\ "body" \notin DOMAIN last.result

(* The total volatility the projection of a tier's template reports, in     *)
(* tenths of a percent                                                      *)
ReportedVolatility(k) ==
    _generate_projection(5000000, k, [str |-> Label_1_year], Some(TemplatePortfolio(k)))
        .value.assumptions.portfolio_volatility

(* C19: for each risk tier, the total annual volatility that the projection  *)
(* reports for the portfolio built from that tier's template lies in the     *)
(* band advertised by /api/utils/risk-levels: low 15-18%, medium 18-22%,     *)
(* high 22-25%; the high tier is more volatile than the medium tier, which   *)
(* is more volatile than the low tier.                                       *)
C19_AdvertisedBands ==
    IsBuild(last) /\ last.result.status = "ok"
    => LET k == lower(last.call.risk_level)
           reported == last.result.value.projection.assumptions.portfolio_volatility
       IN  /\ get_risk_levels[k].volatility[1] <= reported
           /\ reported <= get_risk_levels[k].volatility[2]
           /\ ReportedVolatility(low) < ReportedVolatility(medium)
           /\ ReportedVolatility(medium) < ReportedVolatility(high)

(* The answers the providers would give now to the requests of a            *)
(* build_portfolio call, in the order it makes them                         *)
AnswersNow(call) ==
    <<[asked |-> "USD", answer |-> ngn_rate]>>
    \o [i \in DOMAIN get_allocation_template(call.risk_level) |->
          [asked |-> get_allocation_template(call.risk_level)[i].symbol,
           answer |-> quote[get_allocation_template(call.risk_level)[i].symbol]]]

(* The providers' answers now are those the caller received *)
SameAnswers(frame) ==
    /\ Len(frame.heard) <= Len(AnswersNow(frame.call))
    /\ frame.heard = SubSeq(AnswersNow(frame.call), 1, Len(frame.heard))

TablesAsBuilt ==
    /\ approved_assets = InitApprovedAssets
    /\ asset_characteristics = InitAssetCharacteristics
    /\ fx_characteristics = InitFxCharacteristics

(* C20: no operation of FinanceAPIService (build_portfolio,                   *)
(* calculate_projections, get_allocation_template, the calculators, the      *)
(* price and FX getters) ever changes approved_assets, asset_characteristics *)
(* or fx_characteristics (the templates are built afresh by each call);      *)
(* hence, in every interleaving of callers on one instance, a finished       *)
(* build_portfolio or calculate_projections call has the result it gets      *)
(* running alone on the same answers of the providers.                       *)
C20_CallersDoNotInterfere ==
    /\ TablesAsBuilt
    /\ \A t \in Threads :
          threads[t].pc = "done" =>
             LET call == threads[t].call
             IN  /\ call.op = "build_portfolio" /\ SameAnswers(threads[t])
                      => threads[t].result
                           = build_portfolio(call.budget_ngn, call.risk_level,
                                             call.time_horizon)
                 /\ call.op = "calculate_projections"
                      => threads[t].result
                           = calculate_projections(call.budget_ngn, call.risk_level,
                                                   call.time_horizon, call.portfolio)

C20_Witness ==
    /\ threads["a"].pc = "done"
    /\ threads["a"].call.op = "build_portfolio"
    /\ threads["a"].call.risk_level = medium
    /\ threads["a"].result.status = "ok"
    /\ SameAnswers(threads["a"])
    /\ threads["b"].pc = "done"
    /\ threads["b"].call.op = "calculate_projections"
    /\ "a" \in threads["b"].beside
    /\ threads["b"].result.status = "ok"

-----------------------------------------------------------------------------
WellFormed(template) ==
    /\ SumOf([i \in DOMAIN template |-> template[i].percent]) = 100
    /\ Len(template) <= 4
    /\ \A i, j \in DOMAIN template : template[i].symbol = template[j].symbol => i = j
    /\ \A i \in DOMAIN template :
          /\ template[i].symbol \in DOMAIN approved_assets
          /\ approved_assets[template[i].symbol] = template[i].type
          /\ template[i].symbol \in DOMAIN asset_characteristics

(* C21: every template that get_allocation_template can return is well     *)
(* formed: its percentages sum to exactly 100, it has at most 4 assets, no  *)
(* symbol appears twice, and every symbol is in approved_assets with the    *)
(* same type and has an entry in asset_characteristics.                     *)
C21_TemplatesWellFormed ==
    IsCall("get_allocation_template") => WellFormed(last.result.value)

C21_Witness ==
    /\ IsCall("get_allocation_template")
    /\ SameLetters(last.call.risk_level, high)
    /\ last.call.risk_level # high
    /\ [i \in 1..3 |-> last.result.value[i].type] = <<"ETF", "Stock", "Stock">>

-----------------------------------------------------------------------------
Returned(op) == IsCall(op) /\ last.result.status = "ok"

(* C22: in every result returned by build_portfolio for a positive budget,  *)
(* each position has price_usd > 0, amount_ngn >= 0 and                     *)
(* fractional_shares >= 0.                                                  *)
C22_PositionsInRange ==
    Returned("build_portfolio") /\ last.call.budget_ngn > 0 =>
        \A i \in DOMAIN last.result.value.portfolio :
            LET position == last.result.value.portfolio[i]
            IN  /\ position.price_usd > 0
                /\ position.amount_ngn >= 0
                /\ position.fractional_shares >= 0

C22_Witness ==
    /\ Returned("build_portfolio")
    /\ last.call.budget_ngn = 4
    /\ last.call.quote["JNJ"] = Number(6)
    /\ Len(last.result.value.portfolio) = 2
    /\ last.result.value.portfolio[2].price_usd = 1
    /\ last.result.value.portfolio[2].amount_ngn = 1
    /\ last.result.value.portfolio[2].fractional_shares = 0

-----------------------------------------------------------------------------
(* The upload passed the handler's extension check and was read and written *)
(* to its temporary file                                                    *)
Stored == last.result.status_code # 400 /\ last.call.read = "ok" /\ last.call.write = "ok"

(* C23: given an audio file with a supported extension and a generation       *)
(* service that answers with valid JSON, analyze_earnings_audio uploads the   *)
(* file at audio_file_path and returns an analysis without an error flag that *)
(* carries symbol, document_type 'Earnings Call' and a timestamp, and the     *)
(* /api/analysis/earnings-call endpoint then answers success=true with that   *)
(* analysis.                                                                  *)
C23_EarningsCallAnalysed ==
    /\ IsCall("api_analysis_earnings_call")
    /\ Stored
    /\ generation.upload = "ok"
    /\ generation.content.kind = "text"
    /\ generation.content.body = "object"
    => /\ last.result.status_code = 200
       /\ last.result.body.success
       /\ "error" \notin DOMAIN last.result.body.analysis
       /\ last.result.body.analysis.symbol = <<"K", "O">>
       /\ last.result.body.analysis.document_type = "Earnings Call"
       /\ "analysis_timestamp" \in DOMAIN last.result.body.analysis

-----------------------------------------------------------------------------
GeneratorFails == generation.content.kind # "text"

(* C24: a failure of the narrative generator never fails                     *)
(* /api/portfolio/build or /api/portfolio/projections:                       *)
(* explain_portfolio_recommendation and explain_projections return a fixed   *)
(* 'unavailable' text instead of raising, the response has success=true, and *)
(* the portfolio or projections object in the response is exactly what the   *)
(* finance service returned, independent of the generator's outcome.         *)
C24_NarrativeFailureTolerated ==
    /\ IsCall("api_portfolio_build") =>
          LET returned == build_portfolio(last.call.budget_ngn, last.call.risk_level,
                                          last.call.time_horizon)
          IN  returned.status = "ok" =>
                 /\ last.result.status_code = 200
                 /\ last.result.body.success
                 /\ last.result.body.portfolio = returned.value
                 /\ GeneratorFails =>
                       last.result.body.ai_explanation
                         \in {Unavailable("explanation", e) : e \in {"NetworkError", "ServerError"}}
    /\ IsCall("api_portfolio_projections") =>
          LET returned == calculate_projections(last.call.budget_ngn, last.call.risk_level,
                                                last.call.time_horizon, last.call.portfolio)
          IN  returned.status = "ok" =>
                 /\ last.result.status_code = 200
                 /\ last.result.body.success
                 /\ last.result.body.projections = returned.value
                 /\ GeneratorFails =>
                       last.result.body.ai_explanation
                         \in {Unavailable("projection", e) : e \in {"NetworkError", "ServerError"}}

C24_Witness ==
    /\ IsCall("api_portfolio_build")
    /\ generation.content.kind = "NetworkError"
    /\ last.result.status_code = 200
    /\ last.result.body.ai_explanation.network_issues
    /\ Len(last.result.body.portfolio.portfolio) = 3

-----------------------------------------------------------------------------
(* The recognised labels with their years, in months: 3_months, 6_months,   *)
(* 1_year, and n_years for n from 2 to 10                                   *)
LabelledMonths ==
    { << <<"3">> \o SubSeq(Label_6_months, 2, 8), 3 >>,
      << Label_6_months, 6 >>,
      << Label_1_year, 12 >>,
      << Label_10_years, 120 >> }
    \cup { << <<d>> \o SubSeq(Label_10_years, 3, 8),
              12 * (CHOOSE n \in 2..9 : <<"2", "3", "4", "5", "6", "7", "8", "9">>[n - 1] = d) >>
           : d \in {"2", "3", "4", "5", "6", "7", "8", "9"} }

Recognised(label) == \E p \in LabelledMonths : p[1] = label

(* C25: the horizon in years is m/12 for an integer horizon of m months,    *)
(* and the mapped value for a recognised label (3_months 0.25, 6_months     *)
(* 0.5, 1_year 1, 2_years 2 ... 10_years 10); every unrecognised string     *)
(* label is treated as 1 year while the displayed horizon still echoes the  *)
(* given label; every value advertised by /api/utils/time-horizons is a     *)
(* recognised label.                                                        *)
C25_HorizonInYears ==
    /\ \A p \in LabelledMonths : years([str |-> p[1]]) = p[2]
    /\ \A i \in DOMAIN get_time_horizons : Recognised(get_time_horizons[i])
    /\ IsCall("calculate_projections") /\ last.locals.status = "ok" =>
          LET h == last.call.time_horizon
          IN  /\ isinstance_int(h) => last.locals.years = h.int
              /\ ~isinstance_int(h) =>
                    /\ \A p \in LabelledMonths : p[1] = h.str => last.locals.years = p[2]
                    /\ ~Recognised(h.str) => last.locals.years = 12
                    /\ Len(last.result.value.time_horizon) = Len(h.str)
                    /\ \A i \in DOMAIN h.str :
                          last.result.value.time_horizon[i]
                            = IF h.str[i] = "_" THEN " " ELSE h.str[i]

C25_Witness ==
    /\ IsCall("calculate_projections")
    /\ last.call.time_horizon = [str |-> <<"1","8","_","m","o","n","t","h","s">>]
    /\ last.locals.status = "ok"
    /\ last.locals.years = 12
    /\ last.result.value.time_horizon = <<"1","8"," ","m","o","n","t","h","s">>

-----------------------------------------------------------------------------
(* The fixed pair of a tier: return and volatility, in ten-thousandths *)
TierPair(risk_level) ==
    IF SameLetters(risk_level, low) THEN <<800, 1500>>
    ELSE IF SameLetters(risk_level, high) THEN <<1300, 2200>>
    ELSE <<1000, 1800>>

WithoutPortfolio(c) == ~c.portfolio.some \/ c.portfolio.list = <<>>

(* C26: calculate_projections called with no portfolio or an empty          *)
(* portfolio does not consult the asset catalog: it uses the fixed tier     *)
(* statistics (low: return 0.08, volatility 0.15; medium: 0.10, 0.18; high: *)
(* 0.13, 0.22; any other tier: the medium pair) and always returns a        *)
(* projection with three scenarios (for a horizon that is not negative);    *)
(* called with a non-empty portfolio it uses the aggregated statistics of   *)
(* that portfolio and ignores the tier.                                     *)
C26_FallbackStatistics ==
    IsCall("calculate_projections") /\ NonNegativeHorizon(last.call.time_horizon) =>
        /\ WithoutPortfolio(last.call) =>
              /\ last.locals.status = "ok"
              /\ <<last.locals.portfolio_return, last.locals.portfolio_volatility>>
                    = TierPair(last.call.risk_level)
              /\ last.result.status = "ok"
              /\ DOMAIN last.result.value.scenarios
                    = {"pessimistic", "expected", "optimistic"}
        /\ ~WithoutPortfolio(last.call) =>
              LET aggregated == _calculate_portfolio_statistics(last.call.portfolio.list)
              IN  /\ aggregated.status = "ok"
                  /\ last.locals.status = "ok"
                  /\ last.locals.portfolio_return = aggregated.value.expected_return
                  /\ last.locals.portfolio_volatility = aggregated.value.volatility

C26_Witness ==
    /\ IsCall("calculate_projections")
    /\ last.call.portfolio = Some(<<>>)
    /\ last.call.risk_level = <<"H", "i", "g", "h">>
    /\ last.call.time_horizon = [str |-> Label_10_years]
    /\ last.locals.portfolio_return = 1300
    /\ last.locals.portfolio_volatility = 2200
    /\ last.result.status = "ok"

-----------------------------------------------------------------------------
(* What a getter makes of a provider's answer: the answer to two decimal    *)
(* places when it is a positive number, else the fallback                   *)
Obtained(answer, fallback) ==
    IF answer.kind = "number" /\ answer.n > 0 THEN round(answer.n, 10) ELSE fallback

Builds == {t \in Threads : threads[t].pc \notin {"idle", "fx_rate"}
                           /\ threads[t].call.op = "build_portfolio"}

(* C27: if the FX rate obtained by build_portfolio is non-positive,         *)
(* build_portfolio raises the invalid-rate error immediately: before the    *)
(* template is selected, before any price is requested and before any       *)
(* position is created, with no retry and no partial result returned;       *)
(* likewise a non-positive price for any asset aborts the whole build with  *)
(* the invalid-price error rather than skipping that asset.                 *)
C27_InvalidRateOrPriceAborts ==
    \A t \in Builds :
        LET frame == threads[t]
        IN  /\ Obtained(frame.heard[1].answer, _get_fallback_fx_rate) <= 0 =>
                  /\ frame.pc = "done"
                  /\ frame.result = Raise("ValueError")
                  /\ Len(frame.heard) = 1
                  /\ frame.locals = NoLocals
            /\ \A k \in 2..Len(frame.heard) :
                  Obtained(frame.heard[k].answer, _get_fallback_price(frame.heard[k].asked)) <= 0
                  => /\ frame.pc = "done"
                     /\ frame.result = Raise("ValueError")
                     /\ Len(frame.heard) = k
                     /\ Len(frame.locals.portfolio) = k - 2

C27_Witness ==
    /\ threads["a"].pc = "done"
    /\ threads["a"].call.op = "build_portfolio"
    /\ threads["a"].heard = <<[asked |-> "USD", answer |-> Number(4)]>>
    /\ threads["a"].result = Raise("ValueError")
    /\ threads["b"].pc = "done"
    /\ threads["b"].call.op = "build_portfolio"
    /\ Len(threads["b"].heard) = 3
    /\ threads["b"].heard[3] = [asked |-> "AAPL", answer |-> Number(4)]
    /\ threads["b"].result = Raise("ValueError")
    /\ Len(threads["b"].locals.portfolio) = 1

-----------------------------------------------------------------------------
(* C28: for every request to /api/analysis/sec-filing or                    *)
(* /api/analysis/earnings-call that gets as far as creating a temporary     *)
(* file, that file has been deleted by the time the response is produced,   *)
(* whether the request succeeds, the analysis reports an error, or reading  *)
(* or writing the upload raises.                                            *)
C28_TemporaryFileDeleted ==
    IsCall("api_analysis_sec_filing") \/ IsCall("api_analysis_earnings_call")
        => tmp_dir = {}

-----------------------------------------------------------------------------
(* The requests a build_portfolio call makes when nothing ends it early: the *)
(* rate, then the price of each symbol of its template, in order            *)
RequestsInOrder(call) ==
    <<"USD">> \o [i \in DOMAIN get_allocation_template(call.risk_level) |->
                    get_allocation_template(call.risk_level)[i].symbol]

(* C29: within one build_portfolio call the FX rate is requested exactly    *)
(* once and before any price; each template symbol's price is requested     *)
(* exactly once, in template order; and the single rate obtained is the one *)
(* reported as fx_rate and used for usd_buying_power and for every          *)
(* position, even if the provider's rate changes during the call.           *)
C29_OneRatePerBuild ==
    \A t \in Builds :
        LET frame == threads[t]
            asked == [k \in DOMAIN frame.heard |-> frame.heard[k].asked]
            rate == Obtained(frame.heard[1].answer, _get_fallback_fx_rate)
        IN  /\ Len(asked) <= Len(RequestsInOrder(frame.call))
            /\ asked = SubSeq(RequestsInOrder(frame.call), 1, Len(asked))
            /\ frame.pc = "done" /\ frame.result.status = "ok" =>
                  /\ asked = RequestsInOrder(frame.call)
                  /\ frame.result.value.fx_rate = rate
                  /\ Return(frame.result.value.usd_buying_power)
                        = calculate_usd_buying_power(frame.call.budget_ngn, rate)
                  /\ \A i \in DOMAIN frame.result.value.portfolio :
                        LET position == frame.result.value.portfolio[i]
                            allocation == calculate_allocation(frame.call.budget_ngn,
                                              position.allocation_percent, rate)
                        IN  /\ position.symbol = asked[i + 1]
                            /\ position.price_usd
                                  = Obtained(frame.heard[i + 1].answer,
                                             _get_fallback_price(position.symbol))
                            /\ Return(position.fractional_shares)
                                  = calculate_fractional_shares(allocation.value.amount_usd,
                                                                position.price_usd)

C29_Witness ==
    /\ threads["a"].pc = "done"
    /\ threads["a"].call.op = "build_portfolio"
    /\ threads["a"].result.status = "ok"
    /\ Len(threads["a"].heard) = 4
    /\ threads["b"].pc = "done"
    /\ threads["b"].call.op = "get_fx_rate"
    /\ "a" \in threads["b"].beside
    /\ threads["b"].result.value # threads["a"].result.value.fx_rate
    /\ threads["b"].result.value > 0

-----------------------------------------------------------------------------
(* The rounded dollar amounts of the positions of a returned portfolio *)
AmountsUsd(value) ==
    [i \in DOMAIN value.portfolio |->
        calculate_allocation(value.budget_ngn, value.portfolio[i].allocation_percent,
                             value.fx_rate).value.amount_usd]

(* C30: for every positive budget and every tier, the amount_ngn of the     *)
(* positions returned by build_portfolio sum to the budget within 0.01 per  *)
(* position, and the sum of the positions' rounded USD amounts differs from *)
(* the reported usd_buying_power by at most 0.02.                           *)
C30_AmountsAddUp ==
    Returned("build_portfolio") /\ last.call.budget_ngn > 0 =>
        LET value == last.result.value
            amounts_ngn == [i \in DOMAIN value.portfolio |-> value.portfolio[i].amount_ngn]
        IN  /\ Abs(SumOf(amounts_ngn) - value.budget_ngn) <= Len(value.portfolio)
            /\ Abs(SumOf(AmountsUsd(value)) - value.usd_buying_power) <= 2

C30_Witness ==
    /\ Returned("build_portfolio")
    /\ last.call.budget_ngn = 5000019
    /\ last.result.value.fx_rate = 160000
    /\ SumOf([i \in 1..3 |-> last.result.value.portfolio[i].amount_ngn]) = 5000020
    /\ SumOf(AmountsUsd(last.result.value)) = last.result.value.usd_buying_power

====
